---- MODULE Spec2Model ----
(***************************************************************************)
(* Model of the RAG pipeline of the textbook backend:                      *)
(*   services/qdrant.py   vector search client (upsert_chunks,             *)
(*                        search_similar)                                  *)
(*   services/prompts.py  prompt builders                                  *)
(*   services/gemini.py   generation client                                *)
(*   services/rag.py      orchestrator (retrieve_context,                  *)
(*                        generate_rag_response, stream_rag_response)      *)
(*                                                                         *)
(* Text is a sequence of tokens: a fixed template text is one token, an    *)
(* input text is a sequence of its own tokens, "" is << >>, and string     *)
(* concatenation is \o.  Optional[T] is a sequence of length at most one:  *)
(* None is << >> and a present value x is <<x>>.  Similarity scores are    *)
(* in hundredths (0.7 is 70).                                              *)
(***************************************************************************)
EXTENDS Integers, Sequences, FiniteSets, TLC

VARIABLES
    collection,   \* the Qdrant collection: point id -> [vector, payload]
    lastOp,       \* what the last direct vector-client call did and returned
    pc,           \* position of the RAG request in flight
    req,          \* arguments of generate_rag_response / stream_rag_response
    retrieval,    \* what retrieve_context did and returned
    sources,      \* extract_sources(results) of the request
    events,       \* events yielded so far by stream_rag_response
    generation,   \* calls made to the prompt builders and the generation client
    response,     \* the RAGResponse returned by generate_rag_response
    call,         \* a call of a prompt builder or of count_tokens: the
                  \* arguments it was given and what it returned
    sessions,     \* the chat_sessions rows, each with its chat_messages rows
    route,        \* the chat route handler serving a request
    tasks,        \* the frames of two concurrent RAG calls
    gemini_service,  \* the module's GeminiChatService instance, once made
    qdrant,       \* the collection as the Qdrant server has it configured
    callers,      \* the frames of two callers of ensure_collection_exists
    refresh_tokens,  \* the committed refresh_tokens rows
    refreshers,   \* the frames of two /refresh requests
    clock,        \* the time, in seconds
    rotations,    \* the token pairs /refresh has returned, and for which token
    logout,       \* the frame of a /logout request
    logged_out,   \* the token hashes stored for a user before a completed logout
    limiter,      \* _rate_limiter.windows and the middleware's _last_cleanup
    time,         \* time.time(), in seconds
    admitted,     \* per window key, the times of the calls is_allowed allowed
    rate,         \* what the last dispatch of RateLimitMiddleware did
    turns,        \* the frames of two chat requests, each in its own transaction
    user_progress,  \* the user_progress row of one user and content item, if any
    patches       \* what the update_content_progress calls so far were given

\* the state of the RAG pipeline, and the state of the other parts
ragVars == <<collection, lastOp, pc, req, retrieval, sources, events, generation, response>>
callVars == <<call>>
chatVars == <<sessions, route>>
pairVars == <<tasks, gemini_service>>
bootVars == <<qdrant, callers>>
logoutVars == <<logout, logged_out>>
authVars == <<refresh_tokens, refreshers, clock, rotations, logoutVars>>
rateVars == <<limiter, time, admitted, rate>>
progressVars == <<user_progress, patches>>
moreVars == <<rateVars, turns, progressVars>>
auxVars == <<callVars, chatVars, pairVars, bootVars, authVars, moreVars>>
\* for the actions of one part, the other parts
notCall == <<chatVars, pairVars, bootVars, authVars, moreVars>>
notChat == <<callVars, pairVars, bootVars, authVars, moreVars>>
notPair == <<callVars, chatVars, bootVars, authVars, moreVars>>
notBoot == <<callVars, chatVars, pairVars, authVars, moreVars>>
notAuth == <<callVars, chatVars, pairVars, bootVars, moreVars>>
notRate == <<callVars, chatVars, pairVars, bootVars, authVars, turns, progressVars>>
notTurns == <<callVars, route, pairVars, bootVars, authVars, rateVars, progressVars>>
notProgress == <<callVars, chatVars, pairVars, bootVars, authVars, rateVars, turns>>
vars == <<ragVars, auxVars>>

(***************************** bounds **************************************)
NumChunks == 2        \* content chunks that ingestion can offer
MaxDir == 2           \* embedding vectors are the directions 0..MaxDir
MaxBatch == 2         \* longest chunk / embedding list passed to upsert_chunks
MaxFragments == 2     \* most chunks the provider streams for one answer

(************************ program constants ********************************)
DefaultLimit == 5             \* limit / context_limit default
DefaultScoreThreshold == 70   \* score_threshold default, 0.7
EmbeddingDim == 768           \* size of the collection's vectors

(***************************** text ****************************************)
None == << >>
Some(x) == <<x>>
\* Python truthiness of an Optional[str] or Optional[list]: None, "" and []
\* are all falsy.
Truthy(o) == o # None /\ o[1] # << >>

RECURSIVE Concat(_)
Concat(ss) == IF ss = << >> THEN << >> ELSE Head(ss) \o Concat(Tail(ss))

\* sep.join(parts)
RECURSIVE Join(_, _)
Join(sep, parts) ==
    IF parts = << >> THEN << >>
    ELSE IF Len(parts) = 1 THEN parts[1]
    ELSE parts[1] \o sep \o Join(sep, Tail(parts))

\* sub in s, for str
Contains(s, sub) ==
    \E i \in 0..(Len(s) - Len(sub)) :
        \A j \in 1..Len(sub) : s[i + j] = sub[j]

\* An embedding vector (List[float]) is its length and the direction it
\* points in.
Embedding(dim, dir) == [dim |-> dim, dir |-> dir]
\* the vectors the embedding model gives
Vectors == {Embedding(EmbeddingDim, d) : d \in 0..MaxDir}
\* the lengths of the vectors a caller may pass to the vector client
Dims == {EmbeddingDim - 1, EmbeddingDim, EmbeddingDim + 1}
\* cosine similarity of two embedding directions, in hundredths
Similarity(q, v) == 100 - 30 * (IF q.dir >= v.dir THEN q.dir - v.dir ELSE v.dir - q.dir)

(************************** content chunks *********************************)
ChunkIds == 1..NumChunks
\* ContentChunk, qdrant.py: the chunks ingestion can offer.  Odd chunks are
\* in module m1, even ones in m2; chunk i is in chapter ch<i>.
ContentChunk(i) ==
    [id |-> i,
     text |-> <<"text" \o ToString(i)>>,
     module_id |-> <<IF i % 2 = 1 THEN "m1" ELSE "m2">>,
     chapter_id |-> <<"ch" \o ToString(i)>>,
     section_title |-> <<"sec" \o ToString(i)>>,
     content_type |-> <<"explanation">>]

\* the document embedding the embedding model gives for a chunk's text
DocumentEmbedding(chunk) == Embedding(EmbeddingDim, (chunk.id - 1) % (MaxDir + 1))

to_payload(chunk) ==
    [text |-> chunk.text,
     module_id |-> chunk.module_id,
     chapter_id |-> chunk.chapter_id,
     section_title |-> chunk.section_title,
     content_type |-> chunk.content_type]

RECURSIVE SeqsUpTo(_, _)
SeqsUpTo(S, n) ==
    IF n = 0 THEN {<< >>}
    ELSE LET shorter == SeqsUpTo(S, n - 1)
         IN shorter \cup {Append(s, x) : s \in {t \in shorter : Len(t) = n - 1}, x \in S}

Min(a, b) == IF a <= b THEN a ELSE b

(************************ Qdrant server (external) *************************)
\* The vectors_config ensure_collection_exists creates the collection with.
VectorParams == [size |-> EmbeddingDim, distance |-> "Cosine"]

\* The server compares the length of every vector it is given, to store or
\* to search with, to the collection's size and answers an error when they
\* differ; it does not change the vector.
DimensionError(vector) == vector.dim # VectorParams.size

\* A filter is a conjunction of exact-match conditions on payload fields.
Matches(payload, conditions) ==
    \A k \in 1..Len(conditions) : payload[conditions[k].key] = conditions[k].value

Hits(coll, qv, conditions, threshold) ==
    {i \in DOMAIN coll :
        /\ Matches(coll[i].payload, conditions)
        /\ Similarity(qv, coll[i].vector) >= threshold}

\* ids by descending score, ties by ascending id
RECURSIVE Ranked(_, _, _)
Ranked(coll, qv, ids) ==
    IF ids = {} THEN << >>
    ELSE LET best == CHOOSE i \in ids :
                 \A j \in ids :
                     \/ Similarity(qv, coll[i].vector) > Similarity(qv, coll[j].vector)
                     \/ /\ Similarity(qv, coll[i].vector) = Similarity(qv, coll[j].vector)
                        /\ i <= j
         IN <<best>> \o Ranked(coll, qv, ids \ {best})

\* client.search(collection_name, query_vector, query_filter, limit,
\* score_threshold) on a reachable server: the server validates limit >= 1
\* and the length of the query vector and answers an error otherwise; else
\* the `limit` best points that match the filter and score at least the
\* threshold.
StoreSearch(coll, qv, conditions, limit, threshold) ==
    IF limit < 1 \/ DimensionError(qv) THEN [error |-> TRUE, points |-> << >>]
    ELSE LET ranked == Ranked(coll, qv, Hits(coll, qv, conditions, threshold))
             top == SubSeq(ranked, 1, Min(limit, Len(ranked)))
         IN [error |-> FALSE,
             points |-> [k \in 1..Len(top) |->
                            [id |-> top[k],
                             score |-> Similarity(qv, coll[top[k]].vector),
                             payload |-> coll[top[k]].payload]]]

\* client.upsert(collection_name, points): a point replaces the stored point
\* of the same id; of two points of one id in the list the later one stays.
RECURSIVE StoreUpsert(_, _)
StoreUpsert(coll, points) ==
    IF points = << >> THEN coll
    ELSE LET p == Head(points)
             next == [i \in DOMAIN coll \cup {p.id} |->
                         IF i = p.id THEN [vector |-> p.vector, payload |-> p.payload]
                         ELSE coll[i]]
         IN StoreUpsert(next, Tail(points))

\* The server's answer to client.upsert: an error, and nothing stored, when
\* a point's vector has not the collection's size.
StoreUpsertReply(coll, points) ==
    IF \E k \in 1..Len(points) : DimensionError(points[k].vector)
    THEN [error |-> TRUE, coll |-> coll]
    ELSE [error |-> FALSE, coll |-> StoreUpsert(coll, points)]

(************************ services/qdrant.py *******************************)
\* The result of a call: raised or returned `value`; `net` counts the calls it
\* made to the vector store; `coll` is the collection it leaves.
Raised(net, coll) == [raised |-> TRUE, value |-> << >>, net |-> net, coll |-> coll]
Returned(value, net, coll) == [raised |-> FALSE, value |-> value, net |-> net, coll |-> coll]

\* zip(chunks, embeddings): stops at the shorter list
Zip(chunks, embeddings) ==
    [k \in 1..Min(Len(chunks), Len(embeddings)) |->
        [id |-> chunks[k].id, vector |-> embeddings[k], payload |-> to_payload(chunks[k])]]

\* upsert_chunks without its length check
upsert_chunks_unchecked(coll, chunks, embeddings, up) ==
    LET reply == StoreUpsertReply(coll, Zip(chunks, embeddings))
    IN IF ~up \/ reply.error THEN Raised(1, coll)
       ELSE Returned(<< >>, 1, reply.coll)

\* upsert_chunks cutting or padding every embedding to the collection's size
\* before it stores it
upsert_chunks_resizing(coll, chunks, embeddings, up) ==
    LET resized == [k \in 1..Len(embeddings) |->
                       Embedding(VectorParams.size, embeddings[k].dir)]
        reply == StoreUpsertReply(coll, Zip(chunks, resized))
    IN IF Len(chunks) # Len(embeddings) THEN Raised(0, coll)
       ELSE IF ~up \/ reply.error THEN Raised(1, coll)
       ELSE Returned(<< >>, 1, reply.coll)

\* upsert_chunks(chunks, embeddings); `up`: the store answers the call.  The
\* embeddings go to client.upsert as they were passed.
upsert_chunks(coll, chunks, embeddings, up) ==
    LET reply == StoreUpsertReply(coll, Zip(chunks, embeddings))
    IN IF Len(chunks) # Len(embeddings) THEN Raised(0, coll)
       ELSE IF ~up \/ reply.error THEN Raised(1, coll)
       ELSE Returned(<< >>, 1, reply.coll)

\* the filter conditions search_similar builds from its optional arguments
Conditions(module_id, chapter_id, content_type) ==
    (IF Truthy(module_id) THEN <<[key |-> "module_id", value |-> module_id[1]]>> ELSE << >>)
    \o (IF Truthy(chapter_id) THEN <<[key |-> "chapter_id", value |-> chapter_id[1]]>> ELSE << >>)
    \o (IF Truthy(content_type) THEN <<[key |-> "content_type", value |-> content_type[1]]>> ELSE << >>)

SearchResult(point) ==
    [chunk_id |-> point.id,
     score |-> point.score,
     text |-> point.payload.text,
     module_id |-> point.payload.module_id,
     chapter_id |-> point.payload.chapter_id,
     section_title |-> point.payload.section_title]

\* search_similar(query_embedding, limit, module_id, chapter_id, content_type,
\* score_threshold); `up`: the store answers the call
search_similar(coll, query_embedding, limit, module_id, chapter_id, content_type, score_threshold, up) ==
    LET reply == StoreSearch(coll, query_embedding,
                             Conditions(module_id, chapter_id, content_type),
                             limit, score_threshold)
    IN IF ~up \/ reply.error THEN Raised(1, coll)
       ELSE Returned([k \in 1..Len(reply.points) |-> SearchResult(reply.points[k])], 1, coll)

(************************ services/prompts.py ******************************)
RAG_SYSTEM_PROMPT == <<"RAG_SYSTEM_PROMPT">>
NO_CONTEXT_RESPONSE == <<"NO_CONTEXT_RESPONSE">>

\* the model-role messages that follow RAG_SYSTEM_PROMPT in the two builders
RAG_ACKNOWLEDGMENT == <<"I understand. I'm ready to help students learn ...">>
FOLLOWUP_ACKNOWLEDGMENT == <<"I understand. I'm ready to continue helping ...">>

Message(role, content) == [role |-> role, parts |-> <<content>>]

\* d.get(key, default), for a dict d: a record that may lack the key
Get(d, key, default) == IF key \in DOMAIN d THEN d[key] ELSE default

\* RAG_CONTEXT_TEMPLATE.format(context=context)
RAG_CONTEXT_TEMPLATE(context) ==
    <<"## Retrieved Context from Textbook\n\n">> \o context
    \o <<"\n\n---\n\nBased on the above context ... answer the following question. ...">>

\* SELECTION_CONTEXT_TEMPLATE.format(selected_text=..., chapter_reference=...)
SELECTION_CONTEXT_TEMPLATE(selected_text, chapter_reference) ==
    <<"## Selected Text\n\nThe student has highlighted ...:\n\n> ">> \o selected_text
    \o <<"\n\nFrom: ">> \o chapter_reference
    \o <<"\n\n---\n\nPlease explain or answer questions about this specific selection.">>

\* the context_text loop of build_rag_prompt
RagContextText(context_chunks) ==
    Concat([i \in 1..Len(context_chunks) |->
        <<"\n### Source ", ToString(i), ": [">>
        \o Get(context_chunks[i], "module_id", <<"Unknown">>)
        \o <<" / ">> \o Get(context_chunks[i], "chapter_id", <<"Unknown">>)
        \o <<" / ">> \o Get(context_chunks[i], "section_title", <<"Section">>)
        \o <<"]\n\n">> \o Get(context_chunks[i], "text", << >>) \o <<"\n">>])

\* build_rag_prompt leaving the question out when it has context to give
build_rag_prompt_context_only(query, context_chunks, selected_text, chapter_id) ==
    LET context_parts ==
            (IF context_chunks # << >>
             THEN <<RAG_CONTEXT_TEMPLATE(RagContextText(context_chunks))>> ELSE << >>)
            \o (IF Truthy(selected_text)
                THEN <<SELECTION_CONTEXT_TEMPLATE(
                          selected_text[1],
                          IF Truthy(chapter_id) THEN chapter_id[1] ELSE <<"Selected content">>)>>
                ELSE << >>)
        user_content ==
            IF context_parts # << >> THEN Join(<<"\n\n">>, context_parts)
            ELSE <<"\n\n## Question\n\n">> \o query
    IN <<Message("user", RAG_SYSTEM_PROMPT),
         Message("model", RAG_ACKNOWLEDGMENT),
         Message("user", user_content)>>

build_rag_prompt(query, context_chunks, selected_text, chapter_id) ==
    LET context_parts ==
            (IF context_chunks # << >>
             THEN <<RAG_CONTEXT_TEMPLATE(RagContextText(context_chunks))>> ELSE << >>)
            \o (IF Truthy(selected_text)
                THEN <<SELECTION_CONTEXT_TEMPLATE(
                          selected_text[1],
                          IF Truthy(chapter_id) THEN chapter_id[1] ELSE <<"Selected content">>)>>
                ELSE << >>)
        user_content ==
            (IF context_parts # << >> THEN Join(<<"\n\n">>, context_parts) ELSE << >>)
            \o <<"\n\n## Question\n\n">> \o query
    IN <<Message("user", RAG_SYSTEM_PROMPT),
         Message("model", RAG_ACKNOWLEDGMENT),
         Message("user", user_content)>>

\* the context_text loop of build_followup_prompt
FollowupContextText(context_chunks) ==
    Concat([i \in 1..Len(context_chunks) |->
        <<"\n### Additional Context ", ToString(i), ": [">>
        \o Get(context_chunks[i], "module_id", <<"Unknown">>)
        \o <<" / ">> \o Get(context_chunks[i], "chapter_id", <<"Unknown">>)
        \o <<"]\n\n">> \o Get(context_chunks[i], "text", << >>) \o <<"\n">>])

\* build_followup_prompt giving every replayed message the role "model"
build_followup_prompt_all_model(query, chat_history, context_chunks) ==
    LET history == [k \in 1..Len(chat_history) |->
                       Message("model", Get(chat_history[k], "content", << >>))]
        user_content ==
            (IF Truthy(context_chunks)
             THEN <<"## Additional Context\n\n">> \o FollowupContextText(context_chunks[1])
                  \o <<"\n\n---\n\n">>
             ELSE << >>)
            \o <<"## Follow-up Question\n\n">> \o query
    IN <<Message("user", RAG_SYSTEM_PROMPT),
         Message("model", FOLLOWUP_ACKNOWLEDGMENT)>>
       \o history \o <<Message("user", user_content)>>

\* context_chunks is Optional here: None or a list.  msg.get("role") of a
\* message without a role is None, which is not "user".
build_followup_prompt(query, chat_history, context_chunks) ==
    LET history == [k \in 1..Len(chat_history) |->
                       Message(IF Get(chat_history[k], "role", "None") = "user"
                               THEN "user" ELSE "model",
                               Get(chat_history[k], "content", << >>))]
        user_content ==
            (IF Truthy(context_chunks)
             THEN <<"## Additional Context\n\n">> \o FollowupContextText(context_chunks[1])
                  \o <<"\n\n---\n\n">>
             ELSE << >>)
            \o <<"## Follow-up Question\n\n">> \o query
    IN <<Message("user", RAG_SYSTEM_PROMPT),
         Message("model", FOLLOWUP_ACKNOWLEDGMENT)>>
       \o history \o <<Message("user", user_content)>>

(************************ services/gemini.py *******************************)
\* What the provider answers to chat.send_message: an error, or a text with
\* usage metadata (a counter the provider omits reads as 0).
\* usage metadata without counters
NoUsage == [input_tokens |-> 0, output_tokens |-> 0]
\* the usage metadata at the end of a streamed generation: omitted or counted
StreamUsages == {NoUsage, [input_tokens |-> 9, output_tokens |-> 4]}

ProviderReplies ==
    {[error |-> TRUE, text |-> << >>, input_tokens |-> 0, output_tokens |-> 0]}
    \cup {[error |-> FALSE, text |-> <<"answer">>, input_tokens |-> i, output_tokens |-> o] :
            i \in {0, 9}, o \in {0, 4}}

\* generate_response that sends the message again when the provider fails
generate_response_retry(messages, reply) ==
    [raised |-> reply.error,
     answer |-> reply.text,
     usage |-> [input_tokens |-> reply.input_tokens, output_tokens |-> reply.output_tokens],
     history |-> SubSeq(messages, 1, Len(messages) - 1),
     sent |-> messages[Len(messages)].parts[1],
     calls |-> IF reply.error THEN 2 ELSE 1]

\* GeminiChatService.generate_response(messages): one send_message call;
\* a provider error is logged and raised again.
generate_response(messages, reply) ==
    [raised |-> reply.error,
     answer |-> reply.text,
     usage |-> [input_tokens |-> reply.input_tokens, output_tokens |-> reply.output_tokens],
     history |-> SubSeq(messages, 1, Len(messages) - 1),
     sent |-> messages[Len(messages)].parts[1],
     calls |-> 1]

\* stream_response that hands start_chat every message, the last included
stream_response_resending(messages, ok) ==
    [raised |-> ~ok,
     history |-> messages,
     sent |-> messages[Len(messages)].parts[1]]

\* GeminiChatService.stream_response(messages) up to send_message(...,
\* stream=True): the chat is started with messages[:-1] and the first part
\* of messages[-1] is sent; a provider error is logged and raised again.
stream_response(messages, ok) ==
    [raised |-> ~ok,
     history |-> SubSeq(messages, 1, Len(messages) - 1),
     sent |-> messages[Len(messages)].parts[1]]

\* count_tokens(text), text being a sequence of characters; `reply` is what
\* model.count_tokens answers: an error or a result with total_tokens.  The
\* exception is caught and a quarter of the length, rounded down, is returned.
count_tokens(text, reply) ==
    IF reply.error THEN [raised |-> FALSE, value |-> Len(text) \div 4]
    ELSE [raised |-> FALSE, value |-> reply.total_tokens]

\* the text of the k-th chunk the provider streams; a chunk may carry no text
FragmentTexts(k) == {<< >>, <<"fragment" \o ToString(k)>>}

(************************ services/rag.py **********************************)
\* retrieve_context that ignores its limit argument
retrieve_context_default_limit(coll, query, module_id, chapter_id, limit, score_threshold, embedding, up) ==
    IF embedding = None
    THEN [results |-> << >>, caught |-> "embedding", net |-> 0, embedding |-> embedding]
    ELSE LET r == search_similar(coll, embedding[1], DefaultLimit, module_id, chapter_id, None, score_threshold, up)
         IN IF r.raised
            THEN [results |-> << >>, caught |-> "search", net |-> r.net, embedding |-> embedding]
            ELSE [results |-> r.value, caught |-> "none", net |-> r.net, embedding |-> embedding]

\* retrieve_context(query, module_id, chapter_id, limit, score_threshold).
\* `embedding` is what generate_query_embedding(query) gives: None when the
\* embedding provider raises.  Every exception of the body is caught and
\* turned into an empty list.
retrieve_context(coll, query, module_id, chapter_id, limit, score_threshold, embedding, up) ==
    IF embedding = None
    THEN [results |-> << >>, caught |-> "embedding", net |-> 0, embedding |-> embedding]
    ELSE LET r == search_similar(coll, embedding[1], limit, module_id, chapter_id, None, score_threshold, up)
         IN IF r.raised
            THEN [results |-> << >>, caught |-> "search", net |-> r.net, embedding |-> embedding]
            ELSE [results |-> r.value, caught |-> "none", net |-> r.net, embedding |-> embedding]

convert_results_to_chunks(results) ==
    [k \in 1..Len(results) |->
        [text |-> results[k].text,
         module_id |-> results[k].module_id,
         chapter_id |-> results[k].chapter_id,
         section_title |-> results[k].section_title]]

\* extract_sources keeping the best result only
extract_sources_best_only(results) ==
    [k \in 1..(IF Len(results) > 1 THEN 1 ELSE Len(results)) |->
        [module_id |-> results[k].module_id,
         chapter_id |-> results[k].chapter_id,
         section |-> results[k].section_title,
         score |-> results[k].score]]

\* extract_sources followed by RAGSource.to_dict
extract_sources(results) ==
    [k \in 1..Len(results) |->
        [module_id |-> results[k].module_id,
         chapter_id |-> results[k].chapter_id,
         section |-> results[k].section_title,
         score |-> results[k].score]]

\* a no-context test that takes a request with chat history to have context
NoContextGenerate_unless_history(results, r) ==
    results = << >> /\ ~Truthy(r.selected_text) /\ ~Truthy(r.chat_history)

\* "if not results and not selected_text" of generate_rag_response
NoContextGenerate(results, r) == results = << >> /\ ~Truthy(r.selected_text)

\* the streaming path without its no-context test
NoContextStream_never(results, r) == FALSE

\* "if not results and not selected_text" of stream_rag_response
NoContextStream(results, r) == results = << >> /\ ~Truthy(r.selected_text)

\* the "Build prompt" block of generate_rag_response and stream_rag_response
BuildMessages(r, results) ==
    LET context_chunks == convert_results_to_chunks(results)
    IN IF Truthy(r.chat_history)
       THEN build_followup_prompt(r.query, r.chat_history[1],
                                  IF results # << >> THEN Some(context_chunks) ELSE None)
       ELSE build_rag_prompt(r.query, context_chunks, r.selected_text, r.chapter_id)

(***************************** inputs **************************************)
Histories ==
    {<< >>,
     <<[role |-> "user", content |-> <<"A">>], [role |-> "assistant", content |-> <<"B">>]>>}

Requests ==
    [mode : {"generate", "stream"},
     query : {<<"what", "is", "lidar">>},
     module_id : {None, Some(<<"m1">>)},
     chapter_id : {None, Some(<<"ch1">>)},
     selected_text : {None, Some(<< >>), Some(<<"selected", "words">>)},
     chat_history : {None} \cup {Some(h) : h \in Histories},
     context_limit : {0, 1, DefaultLimit}]

SearchLimits == {-1, 0, 1, DefaultLimit}
SearchThresholds == {0, DefaultScoreThreshold}

(***************************** state ***************************************)
NoOp == [op |-> "none"]
NoRequest == [mode |-> "none"]
NoRetrieval == [results |-> << >>, caught |-> "none", net |-> 0, embedding |-> None]
\* `usage` is what the provider counted for the generation it completed
NoGeneration ==
    [prompt_calls |-> 0, calls |-> 0, messages |-> None, provided |-> << >>, error |-> FALSE,
     usage |-> NoUsage, history |-> None, sent |-> None]

Idle == pc = "idle"

RequestReset ==
    /\ pc' = "idle"
    /\ req' = NoRequest
    /\ retrieval' = NoRetrieval
    /\ sources' = << >>
    /\ events' = << >>
    /\ generation' = NoGeneration
    /\ response' = None

NoCall == [fn |-> "none"]

\* no request in flight
NoRequestInFlight ==
    /\ lastOp = NoOp
    /\ pc = "idle"
    /\ req = NoRequest
    /\ retrieval = NoRetrieval
    /\ sources = << >>
    /\ events = << >>
    /\ generation = NoGeneration
    /\ response = None

NoRoute == [path |-> "none"]

\* nothing but the RAG pipeline is in use
NoFrame ==
    [pc |-> "idle", req |-> NoRequest, retrieval |-> NoRetrieval, sources |-> << >>,
     events |-> << >>, generation |-> NoGeneration, response |-> None]

\* the two concurrent calls
Calls == {1, 2}

\* the two callers of ensure_collection_exists
Callers == {1, 2}
\* last: how the caller's previous call ended
NoCaller == [pc |-> "idle", field |-> 0, error |-> None, last |-> "none"]
\* the collection as ensure_collection_exists has made it
CreatedCollection ==
    [exists |-> TRUE, params |-> Some(VectorParams),
     indexes |-> {"module_id", "chapter_id", "content_type"}]

\* the two /refresh requests
Refreshers == {1, 2}
NoRefresher == [pc |-> "idle"]
NoLogout == [pc |-> "idle"]

\* the other parts at rest
CallInit == call = NoCall
ChatRest ==
    /\ sessions = << >>
    /\ route = NoRoute
PairRest ==
    /\ tasks = [t \in Calls |-> NoFrame]
    /\ gemini_service = None
BootRest ==
    /\ qdrant = CreatedCollection
    /\ callers = [c \in Callers |-> NoCaller]
AuthRest ==
    /\ refresh_tokens = {}
    /\ refreshers = [c \in Refreshers |-> NoRefresher]
    /\ clock = 0
    /\ rotations = << >>
    /\ logout = NoLogout
    /\ logged_out = {}

\* the update_content_progress calls so far: how many, how many failed, the
\* sum of their reading_time_delta, the exercise updates that carried a
\* score and the best of those scores
NoPatches ==
    [calls |-> 0, failed |-> 0, reading_time |-> 0, scored |-> 0, best |-> None,
     status |-> 0]

\* the two chat requests that run side by side
TurnIds == {1, 2}
NoTurn == [pc |-> "idle"]

\* the rate limiter's clients and the keys of their two windows
Clients == {"a", "b"}
WindowKeys == {<<"ip", c, w>> : c \in Clients, w \in {"minute", "burst"}}
NoRate == [op |-> "none"]
RateRest ==
    /\ limiter = [windows |-> [k \in WindowKeys |-> << >>], last_cleanup |-> 0]
    /\ time = 0
    /\ admitted = [k \in WindowKeys |-> << >>]
    /\ rate = NoRate

\* the parts beside the RAG pipeline, the builders, the chat routes, the
\* concurrent calls, the bootstrap and the token routes
MoreRest ==
    /\ RateRest
    /\ turns = [r \in TurnIds |-> NoTurn]
    /\ user_progress = None
    /\ patches = NoPatches

AuxInit ==
    /\ CallInit
    /\ ChatRest
    /\ PairRest
    /\ BootRest
    /\ AuthRest
    /\ MoreRest

\* no request in flight, and an empty collection
RagInit ==
    /\ collection = << >>
    /\ NoRequestInFlight

Init ==
    /\ RagInit
    /\ AuxInit

Event(type, data) == [type |-> type, data |-> data]

(******************** direct calls of the vector client ********************)
\* The embeddings ingestion passes with a batch of chunks: the document
\* embeddings of their texts, of which the embedding step may have produced
\* fewer or more (n) than there are chunks, from a model whose vectors have
\* length dim.
BatchEmbeddings(chunks, n, dim) ==
    [k \in 1..n |->
        Embedding(dim, IF k <= Len(chunks) THEN DocumentEmbedding(chunks[k]).dir ELSE 0)]

\* A direct call of upsert_chunks (ingestion).  The call is one step: its
\* only suspension is the store call itself.
UpsertChunks ==
    /\ Idle
    /\ \E chunks \in SeqsUpTo({ContentChunk(i) : i \in ChunkIds}, MaxBatch),
          n \in 0..MaxBatch, dim \in Dims, up \in BOOLEAN :
          LET embeddings == BatchEmbeddings(chunks, n, dim)
              out == upsert_chunks(collection, chunks, embeddings, up)
          IN /\ collection' = out.coll
             /\ lastOp' = [op |-> "upsert", nchunks |-> Len(chunks),
                           nembeddings |-> Len(embeddings), dim |-> dim,
                           raised |-> out.raised, net |-> out.net]
    /\ RequestReset
    /\ UNCHANGED auxVars

\* A direct call of search_similar.
SearchSimilar ==
    /\ Idle
    /\ \E dir \in 0..MaxDir, dim \in Dims, limit \in SearchLimits,
          threshold \in SearchThresholds,
          module_id \in {None, Some(<<"m1">>)}, up \in BOOLEAN :
          LET qv == Embedding(dim, dir)
              out == search_similar(collection, qv, limit, module_id, None, None, threshold, up)
          IN lastOp' = [op |-> "search", limit |-> limit, score_threshold |-> threshold,
                        dim |-> dim, raised |-> out.raised, net |-> out.net,
                        value |-> out.value]
    /\ collection' = collection
    /\ RequestReset
    /\ UNCHANGED auxVars

(************************** a RAG request **********************************)
\* generate_rag_response(...) or stream_rag_response(...) is called.
StartRequest ==
    /\ Idle
    /\ \E r \in Requests : req' = r
    /\ pc' = "retrieve"
    /\ retrieval' = NoRetrieval
    /\ sources' = << >>
    /\ events' = << >>
    /\ generation' = NoGeneration
    /\ response' = None
    /\ lastOp' = NoOp
    /\ UNCHANGED collection
    /\ UNCHANGED auxVars

\* results = await retrieve_context(...); sources = extract_sources(results)
Retrieve ==
    /\ pc = "retrieve"
    /\ \E embedding \in {None} \cup {Some(v) : v \in Vectors}, up \in BOOLEAN :
          retrieval' = retrieve_context(collection, req.query, req.module_id, req.chapter_id,
                                        req.context_limit, DefaultScoreThreshold, embedding, up)
    /\ sources' = extract_sources(retrieval'.results)
    /\ pc' = "retrieved"
    /\ UNCHANGED <<collection, lastOp, req, events, generation, response>>
    /\ UNCHANGED auxVars

\* generate_rag_response, the no-context return
ReturnNoContext ==
    /\ pc = "retrieved"
    /\ req.mode = "generate"
    /\ NoContextGenerate(retrieval.results, req)
    /\ response' = Some([answer |-> NO_CONTEXT_RESPONSE, sources |-> sources,
                         input_tokens |-> 0, output_tokens |-> 0])
    /\ pc' = "done"
    /\ UNCHANGED <<collection, lastOp, req, retrieval, sources, events, generation>>
    /\ UNCHANGED auxVars

\* generate_rag_response from "Build prompt" to its return, or to the
\* exception of gemini.generate_response that it lets through
Generate ==
    /\ pc = "retrieved"
    /\ req.mode = "generate"
    /\ ~NoContextGenerate(retrieval.results, req)
    /\ \E reply \in ProviderReplies :
          LET messages == BuildMessages(req, retrieval.results)
              out == generate_response(messages, reply)
          IN /\ generation' = [generation EXCEPT !.prompt_calls = @ + 1,
                                                 !.calls = @ + out.calls,
                                                 !.messages = Some(messages),
                                                 !.error = out.raised,
                                                 !.usage = IF out.raised THEN NoUsage
                                                           ELSE out.usage,
                                                 !.history = Some(out.history),
                                                 !.sent = Some(out.sent)]
             /\ IF out.raised
                THEN /\ pc' = "failed"
                     /\ response' = None
                ELSE /\ pc' = "done"
                     /\ response' = Some([answer |-> out.answer, sources |-> sources,
                                          input_tokens |-> out.usage.input_tokens,
                                          output_tokens |-> out.usage.output_tokens])
    /\ UNCHANGED <<collection, lastOp, req, retrieval, sources, events>>
    /\ UNCHANGED auxVars

\* stream_rag_response: yield {"type": "sources", ...}
YieldSources ==
    /\ pc = "retrieved"
    /\ req.mode = "stream"
    /\ events' = Append(events, Event("sources", sources))
    /\ pc' = "sources_yielded"
    /\ UNCHANGED <<collection, lastOp, req, retrieval, sources, generation, response>>
    /\ UNCHANGED auxVars

\* stream_rag_response, no-context case: yield the fixed text as one chunk
YieldNoContextChunk ==
    /\ pc = "sources_yielded"
    /\ NoContextStream(retrieval.results, req)
    /\ events' = Append(events, Event("chunk", NO_CONTEXT_RESPONSE))
    /\ pc' = "no_context_chunk_yielded"
    /\ UNCHANGED <<collection, lastOp, req, retrieval, sources, generation, response>>
    /\ UNCHANGED auxVars

\* the no-context case returning without its done event
YieldNoContextDone_missing ==
    /\ pc = "no_context_chunk_yielded"
    /\ pc' = "done"
    /\ UNCHANGED <<collection, lastOp, req, retrieval, sources, events, generation, response>>
    /\ UNCHANGED auxVars

\* stream_rag_response, no-context case: yield done and return
YieldNoContextDone ==
    /\ pc = "no_context_chunk_yielded"
    /\ events' = Append(events, Event("done", None))
    /\ pc' = "done"
    /\ UNCHANGED <<collection, lastOp, req, retrieval, sources, generation, response>>
    /\ UNCHANGED auxVars

\* stream_rag_response builds the prompt and starts gemini.stream_response:
\* start_chat and send_message(stream=True), which the provider may fail
StreamOpen ==
    /\ pc = "sources_yielded"
    /\ ~NoContextStream(retrieval.results, req)
    /\ \E ok \in BOOLEAN :
          LET messages == BuildMessages(req, retrieval.results)
              out == stream_response(messages, ok)
          IN /\ generation' = [generation EXCEPT
                                   !.prompt_calls = @ + 1,
                                   !.calls = @ + 1,
                                   !.messages = Some(messages),
                                   !.error = out.raised,
                                   !.history = Some(out.history),
                                   !.sent = Some(out.sent)]
             /\ pc' = IF out.raised THEN "failed" ELSE "streaming"
    /\ UNCHANGED <<collection, lastOp, req, retrieval, sources, events, response>>
    /\ UNCHANGED auxVars

\* stream_rag_response consuming a fragment without relaying it
StreamChunk_dropping ==
    /\ pc = "streaming"
    /\ Len(generation.provided) < MaxFragments
    /\ \E text \in FragmentTexts(Len(generation.provided) + 1) :
          generation' = [generation EXCEPT !.provided = Append(@, text)]
    /\ UNCHANGED <<collection, lastOp, pc, req, retrieval, sources, events, response>>
    /\ UNCHANGED auxVars

\* the provider streams one more chunk; stream_response yields its text when
\* it has any, and stream_rag_response relays that as a chunk event
StreamChunk ==
    /\ pc = "streaming"
    /\ Len(generation.provided) < MaxFragments
    /\ \E text \in FragmentTexts(Len(generation.provided) + 1) :
          /\ generation' = [generation EXCEPT !.provided = Append(@, text)]
          /\ events' = IF text # << >> THEN Append(events, Event("chunk", text)) ELSE events
    /\ UNCHANGED <<collection, lastOp, pc, req, retrieval, sources, response>>
    /\ UNCHANGED auxVars

\* the provider fails while streaming: stream_response raises, and so does
\* stream_rag_response
StreamError ==
    /\ pc = "streaming"
    /\ generation' = [generation EXCEPT !.error = TRUE]
    /\ pc' = "failed"
    /\ UNCHANGED <<collection, lastOp, req, retrieval, sources, events, response>>
    /\ UNCHANGED auxVars

\* the provider's stream is exhausted, with the usage metadata the provider
\* counted for it, which stream_response does not read: yield done
StreamEnd ==
    /\ pc = "streaming"
    /\ \E usage \in StreamUsages : generation' = [generation EXCEPT !.usage = usage]
    /\ events' = Append(events, Event("done", None))
    /\ pc' = "done"
    /\ UNCHANGED <<collection, lastOp, req, retrieval, sources, response>>
    /\ UNCHANGED auxVars

\* The caller has the outcome of the request (the response, the exhausted
\* stream or the exception); the call's frame is gone.
Finish ==
    /\ pc \in {"done", "failed"}
    /\ RequestReset
    /\ UNCHANGED <<collection, lastOp>>
    /\ UNCHANGED auxVars

Next ==
    \/ UpsertChunks
    \/ SearchSimilar
    \/ StartRequest
    \/ Retrieve
    \/ ReturnNoContext
    \/ Generate
    \/ YieldSources
    \/ YieldNoContextChunk
    \/ YieldNoContextDone
    \/ StreamOpen
    \/ StreamChunk
    \/ StreamError
    \/ StreamEnd
    \/ Finish

Spec == Init /\ [][Next]_vars

(************* calls of the prompt builders and of count_tokens ************)
MaxContext == 2       \* longest context_chunks list given to a builder
MaxHistory == 2       \* longest chat_history given to build_followup_prompt
MaxTextLen == 9       \* longest text given to count_tokens, in characters

Queries == {<< >>, <<"what", "is", "lidar">>}

\* context chunk dicts: one with every key, as convert_results_to_chunks
\* makes them, one with the text only, and an empty one
ContextDicts ==
    {[text |-> <<"text1">>, module_id |-> <<"m1">>, chapter_id |-> <<"ch1">>,
      section_title |-> <<"sec1">>],
     [text |-> <<"text2">>],
     [module_id |-> <<"m2">>]}

\* chat history dicts: the roles the chat route stores, another role, and
\* dicts that lack a key
HistoryDicts ==
    {[role |-> "user", content |-> <<"A">>],
     [role |-> "assistant", content |-> <<"B">>],
     [role |-> "system", content |-> <<"S">>],
     [content |-> <<"N">>],
     [role |-> "user"]}

\* the characters of a text of length n
Chars(n) == [k \in 1..n |-> "x"]

\* what model.count_tokens answers for a text of length n
CountReplies(n) ==
    {[error |-> TRUE, total_tokens |-> 0]}
    \cup {[error |-> FALSE, total_tokens |-> t] : t \in {0, n}}

NotCalling == call.fn = "none"

\* build_rag_prompt(query, context_chunks, selected_text, chapter_id)
BuildRagPrompt ==
    /\ NotCalling
    /\ \E query \in Queries, context_chunks \in SeqsUpTo(ContextDicts, MaxContext),
          selected_text \in {None, Some(<< >>), Some(<<"selected", "words">>)},
          chapter_id \in {None, Some(<<"ch1">>)} :
          call' = [fn |-> "build_rag_prompt", query |-> query,
                   context_chunks |-> context_chunks, selected_text |-> selected_text,
                   chapter_id |-> chapter_id,
                   result |-> build_rag_prompt(query, context_chunks, selected_text, chapter_id)]
    /\ UNCHANGED <<ragVars, notCall>>

\* build_followup_prompt(query, chat_history, context_chunks)
BuildFollowupPrompt ==
    /\ NotCalling
    /\ \E query \in Queries, chat_history \in SeqsUpTo(HistoryDicts, MaxHistory),
          context_chunks \in {None} \cup {Some(c) : c \in SeqsUpTo(ContextDicts, 1)} :
          call' = [fn |-> "build_followup_prompt", query |-> query,
                   chat_history |-> chat_history, context_chunks |-> context_chunks,
                   result |-> build_followup_prompt(query, chat_history, context_chunks)]
    /\ UNCHANGED <<ragVars, notCall>>

\* await gemini.count_tokens(text)
CountTokens ==
    /\ NotCalling
    /\ \E n \in 0..MaxTextLen :
          \E reply \in CountReplies(n) :
             LET out == count_tokens(Chars(n), reply)
             IN call' = [fn |-> "count_tokens", text |-> Chars(n), failed |-> reply.error,
                         raised |-> out.raised, result |-> out.value]
    /\ UNCHANGED <<ragVars, notCall>>

\* the caller has the result
Return ==
    /\ ~NotCalling
    /\ call' = NoCall
    /\ UNCHANGED <<ragVars, notCall>>

NextCall ==
    \/ BuildRagPrompt
    \/ BuildFollowupPrompt
    \/ CountTokens
    \/ Return

SpecCall == Init /\ [][NextCall]_vars

(************************ api/routes/chat.py *******************************)
MaxSessions == 2      \* most chat_sessions rows

\* a chat_messages row
ChatMessage(sequence_number, role, content, retrieved_chunks, input_tokens, output_tokens) ==
    [sequence_number |-> sequence_number, role |-> role, content |-> content,
     retrieved_chunks |-> retrieved_chunks,
     input_tokens |-> input_tokens, output_tokens |-> output_tokens]

\* a new chat_sessions row
NewSession(user_id) == [user_id |-> user_id, message_count |-> 0, messages |-> << >>]

\* the ChatSession object a request holds: the row as it was loaded
Loaded(rows, id) == [id |-> id, message_count |-> rows[id].message_count]

\* get_or_create_session(db, session_id, ...): the row of that id when there
\* is one, else a new row; ids are the row numbers
get_or_create_session(rows, session_id, user_id) ==
    IF session_id # None /\ session_id[1] \in DOMAIN rows
    THEN [rows |-> rows, id |-> session_id[1]]
    ELSE [rows |-> Append(rows, NewSession(user_id)), id |-> Len(rows) + 1]

\* save_messages(db, session, user_query, assistant_response, sources,
\* selection_context, input_tokens, output_tokens)
save_messages(rows, session, user_query, assistant_response, srcs, input_tokens, output_tokens) ==
    LET n == session.message_count
        id == session.id
        user_msg == ChatMessage(n + 1, "user", user_query, << >>, 0, 0)
        assistant_msg == ChatMessage(n + 2, "assistant", assistant_response, srcs,
                                     input_tokens, output_tokens)
    IN [rows EXCEPT ![id] = [@ EXCEPT !.message_count = n + 2,
                                      !.messages = @ \o <<user_msg, assistant_msg>>]]

\* the ChatQuery bodies posted to /query and /query/stream
ChatQueries ==
    [session_id : {None, Some(1)},
     query : {<<"what", "is", "lidar">>},
     selected_text : {None, Some(<<"selected", "words">>)}]

\* the arguments the routes give generate_rag_response / stream_rag_response
RagArguments(mode, query) ==
    [mode |-> mode, query |-> query.query, module_id |-> None, chapter_id |-> None,
     selected_text |-> query.selected_text, chat_history |-> None,
     context_limit |-> DefaultLimit]

\* full_response and sources as query_chat_stream.generate has gathered them
\* from the events so far
RECURSIVE FullResponse(_)
FullResponse(evts) ==
    IF evts = << >> THEN << >>
    ELSE (IF Head(evts).type = "chunk" THEN Head(evts).data ELSE << >>)
         \o FullResponse(Tail(evts))

RECURSIVE StreamSources(_)
StreamSources(evts) ==
    IF evts = << >> THEN << >>
    ELSE IF evts[Len(evts)].type = "sources" THEN evts[Len(evts)].data
    ELSE StreamSources(SubSeq(evts, 1, Len(evts) - 1))

\* the database as the chat routes start with it: no session, or one session
\* holding an earlier turn
EarlierTurn ==
    <<ChatMessage(1, "user", <<"earlier", "question">>, << >>, 0, 0),
      ChatMessage(2, "assistant", <<"earlier", "answer">>, << >>, 0, 0)>>

\* the databases a chat request is followed from
Databases ==
    {<< >>,
     <<[user_id |-> Some("u1"), message_count |-> 2, messages |-> EarlierTurn]>>}

\* the identity of the requester: anonymous, or the sub of its token
Requesters == {None, Some("u1"), Some("u2")}

ChatInit ==
    /\ NoRequestInFlight
    /\ collection = StoreUpsert(<< >>, Zip(<<ContentChunk(1)>>, <<DocumentEmbedding(ContentChunk(1))>>))
    /\ CallInit
    /\ sessions \in Databases
    /\ route = NoRoute
    /\ PairRest
    /\ BootRest
    /\ AuthRest
    /\ MoreRest

\* A request enters a chat route: get_or_create_session, then the call of
\* the RAG pipeline.  `entry` is the database as the request found it and
\* `before` the session's row as the turn found it.  One request is
\* followed from each database.
Enter(path, mode) ==
    /\ Idle
    /\ route = NoRoute
    /\ sessions \in Databases
    /\ \E query \in ChatQueries, user \in Requesters :
          LET got == get_or_create_session(sessions, query.session_id, user)
          IN /\ Len(got.rows) <= MaxSessions
             /\ sessions' = got.rows
             /\ route' = [path |-> path, status |-> "running", session |-> got.id,
                          user |-> user, session_id |-> query.session_id,
                          entry |-> sessions, before |-> got.rows[got.id]]
             /\ req' = RagArguments(mode, query)
    /\ pc' = "retrieve"
    /\ retrieval' = NoRetrieval
    /\ sources' = << >>
    /\ events' = << >>
    /\ generation' = NoGeneration
    /\ response' = None
    /\ UNCHANGED <<collection, lastOp, notChat>>

\* POST /query: query_chat up to await generate_rag_response(...)
QueryChat == Enter("query", "generate")

\* POST /query/stream: generate() up to the first event of
\* stream_rag_response(...)
QueryChatStream == Enter("stream", "stream")

\* query_chat after generate_rag_response returned: save_messages and the
\* ChatResponse
QueryChatRespond ==
    /\ route.path = "query"
    /\ route.status = "running"
    /\ pc = "done"
    /\ sessions' = save_messages(sessions, Loaded(sessions, route.session), req.query, response[1].answer,
                                 response[1].sources, response[1].input_tokens,
                                 response[1].output_tokens)
    /\ route' = [route EXCEPT !.status = "responded"]
    /\ UNCHANGED <<ragVars, notChat>>

\* query_chat when generate_rag_response raised: HTTP 503, and get_db rolls
\* the transaction back
QueryChatUnavailable ==
    /\ route.path = "query"
    /\ route.status = "running"
    /\ pc = "failed"
    /\ sessions' = route.entry
    /\ route' = [route EXCEPT !.status = "unavailable"]
    /\ UNCHANGED <<ragVars, notChat>>

\* generate() on the done event: save_messages with the gathered text and
\* sources and no token counts, then the done frame
StreamSaveDone ==
    /\ route.path = "stream"
    /\ route.status = "running"
    /\ pc = "done"
    /\ sessions' = save_messages(sessions, Loaded(sessions, route.session), req.query, FullResponse(events),
                                 StreamSources(events), 0, 0)
    /\ route' = [route EXCEPT !.status = "completed"]
    /\ UNCHANGED <<ragVars, notChat>>

\* generate() when stream_rag_response raised: the error frame
StreamErrorFrame ==
    /\ route.path = "stream"
    /\ route.status = "running"
    /\ pc = "failed"
    /\ route' = [route EXCEPT !.status = "error_frame"]
    /\ UNCHANGED <<ragVars, sessions, notChat>>

\* the consumer's abandonment storing the text gathered so far
ConsumerAbandons_saving_partial ==
    /\ route.path = "stream"
    /\ route.status = "running"
    /\ pc' = "closed"
    /\ sessions' = save_messages(sessions, Loaded(sessions, route.session), req.query, FullResponse(events),
                                 StreamSources(events), 0, 0)
    /\ route' = [route EXCEPT !.status = "abandoned"]
    /\ UNCHANGED <<collection, lastOp, req, retrieval, sources, events, generation, response>>
    /\ UNCHANGED notChat

\* The consumer of the stream goes away before the done frame: the task is
\* cancelled where it is suspended, the generators are closed without running
\* further, and the transaction get_db holds is rolled back.
ConsumerAbandons ==
    /\ route.path = "stream"
    /\ route.status = "running"
    /\ pc' = "closed"
    /\ sessions' = route.entry
    /\ route' = [route EXCEPT !.status = "abandoned"]
    /\ UNCHANGED <<collection, lastOp, req, retrieval, sources, events, generation, response>>
    /\ UNCHANGED notChat

\* the request is over
RouteEnd ==
    /\ route.path # "none"
    /\ route.status # "running"
    /\ route' = NoRoute
    /\ RequestReset
    /\ UNCHANGED <<collection, lastOp, sessions, notChat>>

NextChat ==
    \/ QueryChat
    \/ QueryChatStream
    \/ Retrieve
    \/ ReturnNoContext
    \/ Generate
    \/ YieldSources
    \/ YieldNoContextChunk
    \/ YieldNoContextDone
    \/ StreamOpen
    \/ StreamChunk
    \/ StreamError
    \/ StreamEnd
    \/ QueryChatRespond
    \/ QueryChatUnavailable
    \/ StreamSaveDone
    \/ StreamErrorFrame
    \/ ConsumerAbandons
    \/ RouteEnd

SpecChat == ChatInit /\ [][NextChat]_vars

(***************** two concurrent calls of the RAG pipeline ****************)
\* the arguments of call t: each call has its own question
PairRequests(t) ==
    [mode : {"generate", "stream"},
     query : {IF t = 1 THEN <<"what", "is", "lidar">> ELSE <<"what", "is", "slam">>},
     module_id : {None},
     chapter_id : {None},
     selected_text : {None, Some(<<"selected", "words">>)},
     chat_history : {None, Some(<<[role |-> "user", content |-> <<"A">>],
                                  [role |-> "assistant", content |-> <<"B">>]>>)},
     context_limit : {DefaultLimit}]

\* generate_query_embedding(query) for the question of call t, when the
\* embedding provider answers
QueryEmbedding(t) == Embedding(EmbeddingDim, (t - 1) % (MaxDir + 1))

\* get_gemini_service(): the module's instance, made by the first call
GeminiChatService == <<"GeminiChatService">>
get_gemini_service(instance) == IF instance = None THEN Some(GeminiChatService) ELSE instance

\* `results` read from a variable the calls share, which the call that
\* retrieved last has set
LocalResults_shared(t) ==
    IF \E o \in Calls \ {t} : tasks[o].pc \notin {"idle", "retrieve"}
    THEN tasks[CHOOSE o \in Calls \ {t} : tasks[o].pc \notin {"idle", "retrieve"}].retrieval.results
    ELSE tasks[t].retrieval.results

\* `results`, a local variable of generate_rag_response / stream_rag_response
LocalResults(t) == tasks[t].retrieval.results

PairInit ==
    /\ NoRequestInFlight
    /\ collection = StoreUpsert(<< >>, Zip(<<ContentChunk(1)>>, <<DocumentEmbedding(ContentChunk(1))>>))
    /\ AuxInit

\* generate_rag_response(...) or stream_rag_response(...) is called
PairStart(t) ==
    /\ tasks[t].pc = "idle"
    /\ \E r \in PairRequests(t) :
          tasks' = [tasks EXCEPT ![t] = [NoFrame EXCEPT !.pc = "retrieve", !.req = r]]
    /\ UNCHANGED <<ragVars, notPair, gemini_service>>

\* results = await retrieve_context(...); sources = extract_sources(results)
PairRetrieve(t) ==
    /\ tasks[t].pc = "retrieve"
    /\ \E embedding \in {None, Some(QueryEmbedding(t))}, up \in BOOLEAN :
          LET f == tasks[t]
              got == retrieve_context(collection, f.req.query, f.req.module_id, f.req.chapter_id,
                                      f.req.context_limit, DefaultScoreThreshold, embedding, up)
          IN tasks' = [tasks EXCEPT ![t] = [f EXCEPT !.retrieval = got,
                                                     !.sources = extract_sources(got.results),
                                                     !.pc = "retrieved"]]
    /\ UNCHANGED <<ragVars, notPair, gemini_service>>

\* generate_rag_response, the no-context return
PairReturnNoContext(t) ==
    /\ tasks[t].pc = "retrieved"
    /\ tasks[t].req.mode = "generate"
    /\ NoContextGenerate(LocalResults(t), tasks[t].req)
    /\ tasks' = [tasks EXCEPT ![t].response =
                     Some([answer |-> NO_CONTEXT_RESPONSE, sources |-> tasks[t].sources,
                           input_tokens |-> 0, output_tokens |-> 0]),
                              ![t].pc = "done"]
    /\ UNCHANGED <<ragVars, notPair, gemini_service>>

\* generate_rag_response from "Build prompt" to its return or its exception
PairGenerate(t) ==
    /\ tasks[t].pc = "retrieved"
    /\ tasks[t].req.mode = "generate"
    /\ ~NoContextGenerate(LocalResults(t), tasks[t].req)
    /\ \E reply \in ProviderReplies :
          LET f == tasks[t]
              messages == BuildMessages(f.req, LocalResults(t))
              out == generate_response(messages, reply)
          IN tasks' = [tasks EXCEPT ![t] =
                 [f EXCEPT !.generation = [@ EXCEPT !.prompt_calls = @ + 1,
                                                    !.calls = @ + out.calls,
                                                    !.messages = Some(messages),
                                                    !.error = out.raised,
                                                    !.usage = IF out.raised THEN NoUsage
                                                              ELSE out.usage],
                           !.pc = IF out.raised THEN "failed" ELSE "done",
                           !.response =
                               IF out.raised THEN None
                               ELSE Some([answer |-> out.answer, sources |-> f.sources,
                                          input_tokens |-> out.usage.input_tokens,
                                          output_tokens |-> out.usage.output_tokens])]]
    /\ gemini_service' = get_gemini_service(gemini_service)
    /\ UNCHANGED <<ragVars, notPair>>

\* stream_rag_response: yield the sources event
PairYieldSources(t) ==
    /\ tasks[t].pc = "retrieved"
    /\ tasks[t].req.mode = "stream"
    /\ tasks' = [tasks EXCEPT ![t].events = Append(@, Event("sources", tasks[t].sources)),
                              ![t].pc = "sources_yielded"]
    /\ UNCHANGED <<ragVars, notPair, gemini_service>>

\* stream_rag_response, no-context case: yield the fixed text as one chunk
PairYieldNoContextChunk(t) ==
    /\ tasks[t].pc = "sources_yielded"
    /\ NoContextStream(LocalResults(t), tasks[t].req)
    /\ tasks' = [tasks EXCEPT ![t].events = Append(@, Event("chunk", NO_CONTEXT_RESPONSE)),
                              ![t].pc = "no_context_chunk_yielded"]
    /\ UNCHANGED <<ragVars, notPair, gemini_service>>

\* stream_rag_response, no-context case: yield done and return
PairYieldNoContextDone(t) ==
    /\ tasks[t].pc = "no_context_chunk_yielded"
    /\ tasks' = [tasks EXCEPT ![t].events = Append(@, Event("done", None)),
                              ![t].pc = "done"]
    /\ UNCHANGED <<ragVars, notPair, gemini_service>>

\* stream_rag_response builds the prompt and starts gemini.stream_response
PairStreamOpen(t) ==
    /\ tasks[t].pc = "sources_yielded"
    /\ ~NoContextStream(LocalResults(t), tasks[t].req)
    /\ \E ok \in BOOLEAN :
          tasks' = [tasks EXCEPT
                       ![t].generation =
                           [@ EXCEPT !.prompt_calls = @ + 1,
                                     !.calls = @ + 1,
                                     !.messages = Some(BuildMessages(tasks[t].req, LocalResults(t))),
                                     !.error = ~ok],
                       ![t].pc = IF ok THEN "streaming" ELSE "failed"]
    /\ gemini_service' = get_gemini_service(gemini_service)
    /\ UNCHANGED <<ragVars, notPair>>

\* the provider streams one more chunk of the call's answer
PairStreamChunk(t) ==
    /\ tasks[t].pc = "streaming"
    /\ Len(tasks[t].generation.provided) < MaxFragments
    /\ \E text \in FragmentTexts(Len(tasks[t].generation.provided) + 1) :
          tasks' = [tasks EXCEPT
                       ![t].generation = [@ EXCEPT !.provided = Append(@, text)],
                       ![t].events = IF text # << >> THEN Append(@, Event("chunk", text)) ELSE @]
    /\ UNCHANGED <<ragVars, notPair, gemini_service>>

\* the provider fails while streaming
PairStreamError(t) ==
    /\ tasks[t].pc = "streaming"
    /\ tasks' = [tasks EXCEPT ![t].generation = [@ EXCEPT !.error = TRUE],
                              ![t].pc = "failed"]
    /\ UNCHANGED <<ragVars, notPair, gemini_service>>

\* the provider's stream is exhausted: yield done
PairStreamEnd(t) ==
    /\ tasks[t].pc = "streaming"
    /\ tasks' = [tasks EXCEPT ![t].events = Append(@, Event("done", None)),
                              ![t].pc = "done"]
    /\ UNCHANGED <<ragVars, notPair, gemini_service>>

\* the caller has the outcome of call t
PairFinish(t) ==
    /\ tasks[t].pc \in {"done", "failed"}
    /\ tasks' = [tasks EXCEPT ![t] = NoFrame]
    /\ UNCHANGED <<ragVars, notPair, gemini_service>>

NextPair ==
    \E t \in Calls :
        \/ PairStart(t)
        \/ PairRetrieve(t)
        \/ PairReturnNoContext(t)
        \/ PairGenerate(t)
        \/ PairYieldSources(t)
        \/ PairYieldNoContextChunk(t)
        \/ PairYieldNoContextDone(t)
        \/ PairStreamOpen(t)
        \/ PairStreamChunk(t)
        \/ PairStreamError(t)
        \/ PairStreamEnd(t)
        \/ PairFinish(t)

SpecPair == PairInit /\ [][NextPair]_vars

(******************* ensure_collection_exists, two callers *****************)
\* the payload fields ensure_collection_exists indexes, in its order
PayloadFields == <<"module_id", "chapter_id", "content_type">>

NoCollection == [exists |-> FALSE, params |-> None, indexes |-> {}]

\* the server's answer to client.create_collection(collection_name,
\* vectors_config): an error when a collection of that name exists
StoreCreateCollection(server, params) ==
    IF server.exists THEN [error |-> TRUE, server |-> server]
    ELSE [error |-> FALSE,
          server |-> [exists |-> TRUE, params |-> Some(params), indexes |-> {}]]

\* the server's answer to client.create_payload_index(collection_name,
\* field_name, field_schema): the field is indexed; indexing it again
\* changes nothing
StoreCreatePayloadIndex(server, field) ==
    [server EXCEPT !.indexes = @ \cup {field}]

\* the server before a caller arrives: without the collection, with the
\* collection as create_collection leaves it, or with it as
\* ensure_collection_exists leaves it
Servers ==
    {NoCollection, StoreCreateCollection(NoCollection, VectorParams).server,
     CreatedCollection}

BootInit ==
    /\ NoRequestInFlight
    /\ collection = << >>
    /\ CallInit
    /\ ChatRest
    /\ PairRest
    /\ qdrant \in Servers
    /\ callers = [c \in Callers |-> NoCaller]
    /\ AuthRest
    /\ MoreRest

\* ensure_collection_exists() up to await client.get_collections()
EnsureCall(c) ==
    /\ callers[c].pc = "idle"
    /\ callers' = [callers EXCEPT ![c].pc = "get_collections"]
    /\ UNCHANGED <<ragVars, notBoot, qdrant>>

\* get_collections() has answered: the test of the name, and either the
\* return or the call of create_collection
EnsureListed(c) ==
    /\ callers[c].pc = "get_collections"
    /\ callers' = [callers EXCEPT ![c].pc = IF qdrant.exists THEN "returned"
                                            ELSE "create_collection"]
    /\ UNCHANGED <<ragVars, notBoot, qdrant>>

\* create_collection(...) has answered: its error leaves
\* ensure_collection_exists; else the first create_payload_index is called
EnsureCreated(c) ==
    /\ callers[c].pc = "create_collection"
    /\ LET reply == StoreCreateCollection(qdrant, VectorParams)
       IN /\ qdrant' = reply.server
          /\ callers' = [callers EXCEPT ![c] =
                IF reply.error
                THEN [@ EXCEPT !.pc = "failed", !.error = Some("already exists")]
                ELSE [@ EXCEPT !.pc = "create_payload_index", !.field = 1]]
    /\ UNCHANGED <<ragVars, notBoot>>

\* create_payload_index(...) has answered: the next field, or the return
EnsureIndexed(c) ==
    /\ callers[c].pc = "create_payload_index"
    /\ qdrant' = StoreCreatePayloadIndex(qdrant, PayloadFields[callers[c].field])
    /\ callers' = [callers EXCEPT ![c] =
          IF @.field = Len(PayloadFields) THEN [@ EXCEPT !.pc = "returned"]
          ELSE [@ EXCEPT !.field = @ + 1]]
    /\ UNCHANGED <<ragVars, notBoot>>

\* the caller has the outcome
EnsureEnd(c) ==
    /\ callers[c].pc \in {"returned", "failed"}
    /\ callers' = [callers EXCEPT ![c] = [NoCaller EXCEPT !.last = callers[c].pc]]
    /\ UNCHANGED <<ragVars, notBoot, qdrant>>

NextBoot ==
    \E c \in Callers :
        \/ EnsureCall(c)
        \/ EnsureListed(c)
        \/ EnsureCreated(c)
        \/ EnsureIndexed(c)
        \/ EnsureEnd(c)

SpecBoot == BootInit /\ [][NextBoot]_vars

(************************* /refresh, two requests **************************)
MaxClock == 2

User == "u1"
Users == {User, "u2"}

\* create_refresh_token_jwt(user_id, settings) at the second now: the
\* payload is sub, exp = now + refresh_token_expire_days, iat = now and the
\* type, so the token is a function of the user and the second
create_refresh_token_jwt(user_id, now) ==
    [sub |-> user_id, iat |-> now, type |-> "refresh"]

\* create_access_token, as far as /refresh tells it from a refresh token
create_access_token(user_id, now) ==
    [sub |-> user_id, iat |-> now, type |-> "access"]

\* create_token_pair(user_id, settings), its refresh token
create_token_pair(user_id, now) ==
    [access_token |-> create_access_token(user_id, now),
     refresh_token |-> create_refresh_token_jwt(user_id, now)]

\* hash_token(token): the SHA-256 digest, one per token
hash_token(token) == <<"sha256", token>>

\* verify_refresh_token(token, settings): the payload of a token this
\* application signed whose type is "refresh", else None
verify_refresh_token(token) ==
    IF token.type # "refresh" THEN None ELSE Some(token)

\* a row of refresh_tokens
RefreshToken(token_hash, user_id) ==
    [token_hash |-> token_hash, user_id |-> user_id, is_revoked |-> FALSE]

\* select(RefreshToken).where(token_hash == ..., is_revoked == False),
\* scalar_one_or_none(): token_hash is unique
SelectStored(rows, token_hash) ==
    LET found == {r \in rows : r.token_hash = token_hash /\ ~r.is_revoked}
    IN IF found = {} THEN None ELSE Some(CHOOSE r \in found : TRUE)

\* the commit of a /refresh transaction: the UPDATE of the stored row and
\* the INSERT of the new one, refused as a whole when the new token_hash is
\* already in the table
CommitRotation(rows, stored_token, new_row) ==
    IF \E r \in rows : r.token_hash = new_row.token_hash
    THEN [error |-> TRUE, rows |-> rows]
    ELSE [error |-> FALSE,
          rows |-> {IF r.token_hash = stored_token.token_hash
                    THEN [r EXCEPT !.is_revoked = TRUE] ELSE r : r \in rows}
                   \cup {new_row}]

\* the tokens a client can present: the refresh tokens issued so far, and
\* an access token
Presentable ==
    {r.token_hash[2] : r \in refresh_tokens}
        \cup {create_access_token(User, 0)}

\* the table after login_user at second 0
AuthInit ==
    /\ NoRequestInFlight
    /\ collection = << >>
    /\ CallInit
    /\ ChatRest
    /\ PairRest
    /\ BootRest
    /\ refresh_tokens =
          {RefreshToken(hash_token(create_refresh_token_jwt(User, 0)), User)}
    /\ refreshers = [c \in Refreshers |-> NoRefresher]
    /\ clock = 0
    /\ rotations = << >>
    /\ logout = NoLogout
    /\ logged_out = {}
    /\ MoreRest

Tick ==
    /\ clock < MaxClock
    /\ clock' = clock + 1
    /\ UNCHANGED <<ragVars, notAuth, refresh_tokens, refreshers, rotations, logoutVars>>

\* refresh_token() up to the answer of the SELECT: 401 for a token that
\* does not verify, 401 when no unrevoked row has its hash
RefreshSelect(c) ==
    /\ refreshers[c].pc = "idle"
    /\ \E token \in Presentable :
          LET token_payload == verify_refresh_token(token)
              stored_token == SelectStored(refresh_tokens, hash_token(token))
          IN refreshers' = [refreshers EXCEPT ![c] =
                IF ~Truthy(token_payload) \/ ~Truthy(stored_token)
                THEN [pc |-> "rejected", status |-> 401, presented |-> token]
                ELSE [pc |-> "selected", presented |-> token,
                      token_payload |-> token_payload[1],
                      stored_token |-> stored_token[1]]]
    /\ UNCHANGED <<ragVars, notAuth, refresh_tokens, clock, rotations, logoutVars>>

\* the rest of refresh_token(): the stored row marked in the session, the
\* new pair made, its row added to the session
RefreshRotate(c) ==
    /\ refreshers[c].pc = "selected"
    /\ LET user_id == refreshers[c].token_payload.sub
           token_pair == create_token_pair(user_id, clock)
       IN refreshers' = [refreshers EXCEPT ![c] =
             [pc |-> "rotated", presented |-> @.presented,
              stored_token |-> @.stored_token, token_pair |-> token_pair,
              new_refresh_token |->
                  RefreshToken(hash_token(token_pair.refresh_token), user_id)]]
    /\ UNCHANGED <<ragVars, notAuth, refresh_tokens, clock, rotations, logoutVars>>

\* get_db after the handler: session.commit(), or rollback and the error
RefreshCommit(c) ==
    /\ refreshers[c].pc = "rotated"
    /\ LET frame == refreshers[c]
           done == CommitRotation(refresh_tokens, frame.stored_token,
                                  frame.new_refresh_token)
       IN /\ refresh_tokens' = done.rows
          /\ refreshers' = [refreshers EXCEPT ![c] =
                IF done.error
                THEN [pc |-> "error", status |-> 500, presented |-> frame.presented]
                ELSE [pc |-> "returned", status |-> 200,
                      presented |-> frame.presented,
                      token_pair |-> frame.token_pair]]
          /\ rotations' =
                IF done.error THEN rotations
                ELSE Append(rotations, [presented |-> frame.presented,
                                        token_pair |-> frame.token_pair])
    /\ UNCHANGED <<ragVars, notAuth, clock, logoutVars>>

\* the client has the response
RefreshEnd(c) ==
    /\ refreshers[c].pc \in {"rejected", "returned", "error"}
    /\ refreshers' = [refreshers EXCEPT ![c] = NoRefresher]
    /\ UNCHANGED <<ragVars, notAuth, refresh_tokens, clock, rotations, logoutVars>>

\* the rows a logout marks: is_revoked = True on each of tokens
RevokeTokens_every_user(rows, tokens) ==
    {[r EXCEPT !.is_revoked = TRUE] : r \in rows}

RevokeTokens(rows, tokens) ==
    {IF \E t \in tokens : t.token_hash = r.token_hash
     THEN [r EXCEPT !.is_revoked = TRUE] ELSE r : r \in rows}

\* logout_user() up to the answer of the SELECT: the unrevoked rows of the
\* current user; stored: the hashes of all the rows the user has by then
LogoutSelect(u) ==
    /\ logout.pc = "idle"
    /\ logout' = [pc |-> "selected", user_id |-> u,
                  tokens |-> {r \in refresh_tokens : r.user_id = u /\ ~r.is_revoked},
                  stored |-> {r.token_hash : r \in {x \in refresh_tokens : x.user_id = u}}]
    /\ UNCHANGED <<ragVars, notAuth, refresh_tokens, refreshers, clock, rotations, logged_out>>

\* the rest of logout_user() and get_db after it: each selected row marked,
\* session.commit()
LogoutCommit ==
    /\ logout.pc = "selected"
    /\ refresh_tokens' = RevokeTokens(refresh_tokens, logout.tokens)
    /\ logged_out' = logged_out \cup logout.stored
    /\ logout' = [pc |-> "done", status |-> 204, user_id |-> logout.user_id]
    /\ UNCHANGED <<ragVars, notAuth, refreshers, clock, rotations>>

\* the client has the response
LogoutEnd ==
    /\ logout.pc = "done"
    /\ logout' = NoLogout
    /\ UNCHANGED <<ragVars, notAuth, refresh_tokens, refreshers, clock, rotations, logged_out>>

\* the table after login_user of each user at second 0
LogoutInit ==
    /\ NoRequestInFlight
    /\ collection = << >>
    /\ CallInit
    /\ ChatRest
    /\ PairRest
    /\ BootRest
    /\ refresh_tokens =
          {RefreshToken(hash_token(create_refresh_token_jwt(u, 0)), u) : u \in Users}
    /\ refreshers = [c \in Refreshers |-> NoRefresher]
    /\ clock = 0
    /\ rotations = << >>
    /\ logout = NoLogout
    /\ logged_out = {}
    /\ MoreRest

\* /logout requests beside the /refresh requests of one client
NextLogout ==
    \/ Tick
    \/ \E u \in Users : LogoutSelect(u)
    \/ LogoutCommit
    \/ LogoutEnd
    \/ RefreshSelect(1)
    \/ RefreshRotate(1)
    \/ RefreshCommit(1)
    \/ RefreshEnd(1)

SpecLogout == LogoutInit /\ [][NextLogout]_vars

NextAuth ==
    \/ Tick
    \/ \E c \in Refreshers :
          \/ RefreshSelect(c)
          \/ RefreshRotate(c)
          \/ RefreshCommit(c)
          \/ RefreshEnd(c)

SpecAuth == AuthInit /\ [][NextAuth]_vars

(*************************** RateLimitMiddleware ***************************)
\* RateLimitConfig, scaled down
RequestsPerMinute == 2
BurstLimit == 1
\* the seconds the clock passes one by one, before and after a quiet minute
MaxNow == 1

MinuteWindow == 60
BurstWindow == 1
CleanupEvery == 300
CleanupMaxAge == 3600

Sum(entries) ==
    LET RECURSIVE Total(_)
        Total(i) == IF i = 0 THEN 0 ELSE Total(i - 1) + entries[i].count
    IN Total(Len(entries))

\* the entries of a window later than start
Later(entries, start) == SelectSeq(entries, LAMBDA e : e.ts > start)

\* is_allowed letting a request in when the window is already full
is_allowed_one_more(windows, client_key, window_seconds, max_requests, t) ==
    LET window_data == Later(windows[client_key], t - window_seconds)
        remaining == max_requests - Sum(window_data) - 1
    IN IF Sum(window_data) > max_requests
       THEN [allowed |-> FALSE, remaining |-> 0, windows |-> windows]
       ELSE [allowed |-> TRUE,
             remaining |-> IF remaining > 0 THEN remaining ELSE 0,
             windows |-> [windows EXCEPT ![client_key] =
                             Append(window_data, [ts |-> t, count |-> 1])]]

\* SlidingWindowCounter.is_allowed(client_key, window_seconds, max_requests)
\* at the time t: (allowed, remaining) and the windows afterwards
is_allowed(windows, client_key, window_seconds, max_requests, t) ==
    LET window_start == t - window_seconds
        window_data == Later(windows[client_key], window_start)
        total_requests == Sum(window_data)
        remaining == max_requests - total_requests - 1
    IN IF total_requests >= max_requests
       THEN [allowed |-> FALSE, remaining |-> 0, windows |-> windows]
       ELSE [allowed |-> TRUE,
             remaining |-> IF remaining > 0 THEN remaining ELSE 0,
             windows |-> [windows EXCEPT ![client_key] =
                             Append(window_data, [ts |-> t, count |-> 1])]]

\* SlidingWindowCounter.cleanup(max_age_seconds) at the time t
cleanup(windows, max_age_seconds, t) ==
    [k \in DOMAIN windows |-> Later(windows[k], t - max_age_seconds)]

\* get_client_key(request) of an unauthenticated request
get_client_key(request) == <<"ip", request.client>>

ExcludePaths == {"/api/health", "/docs", "/openapi.json"}
RateRequests == [path : {"/api/health", "/api/chat/query"}, client : Clients]

\* the times of the allowed calls after a call of is_allowed on key
Admit(log, key, reply, t) ==
    IF reply.allowed THEN [log EXCEPT ![key] = Append(@, t)] ELSE log

RateInit ==
    /\ NoRequestInFlight
    /\ collection = << >>
    /\ CallInit
    /\ ChatRest
    /\ PairRest
    /\ BootRest
    /\ AuthRest
    /\ RateRest
    /\ turns = [r \in TurnIds |-> NoTurn]
    /\ user_progress = None
    /\ patches = NoPatches

\* RateLimitMiddleware.dispatch(request, call_next)
Dispatch(request) ==
    LET client_key == get_client_key(request)
        minute_key == Append(client_key, "minute")
        burst_key == Append(client_key, "burst")
        minute == is_allowed(limiter.windows, minute_key, MinuteWindow,
                             RequestsPerMinute, time)
        burst == is_allowed(minute.windows, burst_key, BurstWindow,
                            BurstLimit, time)
        due == time - limiter.last_cleanup > CleanupEvery
    IN IF request.path \in ExcludePaths
       THEN /\ rate' = [op |-> "dispatch", request |-> request, at |-> time, status |-> 200,
                        limited |-> FALSE, before |-> limiter.windows]
            /\ UNCHANGED <<limiter, admitted>>
       ELSE IF ~minute.allowed
       THEN /\ rate' = [op |-> "dispatch", request |-> request, at |-> time, status |-> 429,
                        limited |-> TRUE, by |-> "minute", remaining |-> 0,
                        before |-> limiter.windows]
            /\ limiter' = [limiter EXCEPT !.windows = minute.windows]
            /\ UNCHANGED admitted
       ELSE IF ~burst.allowed
       THEN /\ rate' = [op |-> "dispatch", request |-> request, at |-> time, status |-> 429,
                        limited |-> TRUE, by |-> "burst",
                        before |-> limiter.windows]
            /\ limiter' = [limiter EXCEPT !.windows = burst.windows]
            /\ admitted' = Admit(admitted, minute_key, minute, time)
       ELSE /\ rate' = [op |-> "dispatch", request |-> request, at |-> time, status |-> 200,
                        limited |-> TRUE, remaining |-> minute.remaining,
                        before |-> limiter.windows]
            /\ limiter' =
                  IF due
                  THEN [windows |-> cleanup(burst.windows, CleanupMaxAge, time),
                        last_cleanup |-> time]
                  ELSE [limiter EXCEPT !.windows = burst.windows]
            /\ admitted' = Admit(Admit(admitted, minute_key, minute, time),
                                 burst_key, burst, time)

DispatchRequest ==
    /\ \E request \in RateRequests : Dispatch(request)
    /\ UNCHANGED <<ragVars, notRate, time>>

\* a second passes
RateTick ==
    /\ time % MinuteWindow < MaxNow
    /\ time' = time + 1
    /\ UNCHANGED <<ragVars, notRate, limiter, admitted, rate>>

\* a minute passes
RateTickMinute ==
    /\ time < MinuteWindow
    /\ time' = time + MinuteWindow
    /\ UNCHANGED <<ragVars, notRate, limiter, admitted, rate>>

NextRate ==
    \/ DispatchRequest
    \/ RateTick
    \/ RateTickMinute

SpecRate == RateInit /\ [][NextRate]_vars

(****************** chat requests in concurrent transactions ***************)
MaxMessages == 4

\* the ChatQuery bodies of the requests: without a session or on session 1
TurnQueries ==
    [session_id : {None, Some(1)},
     query : {<<"what", "is", "lidar">>, <<"and", "radar">>}]

\* the rows a transaction sees and writes: a session it created is in its
\* own transaction until the commit
OwnRows(rows, created) == IF created THEN Append(rows, NewSession(None)) ELSE rows

\* the committed database holds session 1 with an earlier turn
TurnsInit ==
    /\ NoRequestInFlight
    /\ collection = << >>
    /\ CallInit
    /\ sessions = <<[user_id |-> None, message_count |-> 2, messages |-> EarlierTurn]>>
    /\ route = NoRoute
    /\ PairRest
    /\ BootRest
    /\ AuthRest
    /\ MoreRest

\* query_chat up to await generate_rag_response(...): get_or_create_session
\* has loaded the ChatSession, or made one, in the request's transaction
TurnStart(r) ==
    /\ turns[r].pc = "idle"
    /\ \E query \in TurnQueries :
          LET got == get_or_create_session(sessions, query.session_id, None)
              created == got.rows # sessions
          IN /\ Len(got.rows) <= MaxSessions
             /\ got.rows[got.id].message_count < MaxMessages
             /\ turns' = [turns EXCEPT ![r] =
                   [pc |-> "generating", query |-> query.query, created |-> created,
                    session |-> Loaded(got.rows, got.id)]]
    /\ UNCHANGED <<ragVars, notTurns, sessions>>

\* query_chat after generate_rag_response returned: save_messages on the
\* ChatSession as the request loaded it, the flush, and get_db's commit
TurnSave(r) ==
    /\ turns[r].pc = "generating"
    /\ LET rows == OwnRows(sessions, turns[r].created)
           session == IF turns[r].created
                      THEN [turns[r].session EXCEPT !.id = Len(rows)]
                      ELSE turns[r].session
       IN /\ Len(rows) <= MaxSessions
          /\ sessions' = save_messages(rows, session, turns[r].query, <<"answer">>,
                                       << >>, 0, 0)
          /\ turns' = [turns EXCEPT ![r] = [pc |-> "responded", session |-> session]]
    /\ UNCHANGED <<ragVars, notTurns>>

\* query_chat when generate_rag_response raised: HTTP 503 and the rollback
TurnUnavailable(r) ==
    /\ turns[r].pc = "generating"
    /\ turns' = [turns EXCEPT ![r] = [pc |-> "unavailable"]]
    /\ UNCHANGED <<ragVars, notTurns, sessions>>

\* the client has the response
TurnEnd(r) ==
    /\ turns[r].pc \in {"responded", "unavailable"}
    /\ turns' = [turns EXCEPT ![r] = NoTurn]
    /\ UNCHANGED <<ragVars, notTurns, sessions>>

NextTurns ==
    \E r \in TurnIds :
        \/ TurnStart(r)
        \/ TurnSave(r)
        \/ TurnUnavailable(r)
        \/ TurnEnd(r)

SpecTurns == TurnsInit /\ [][NextTurns]_vars

(************************* update_content_progress *************************)
MaxUpdates == 3

\* the ProgressUpdate bodies the schema admits: progress_percent in 0..100,
\* reading_time_delta >= 0, exercise_score in 0..100 when given
ProgressUpdates ==
    [content_type : {"chapter", "exercise"},
     progress_percent : {0, 50, 100},
     scroll_position : {None, Some(50)},
     reading_time_delta : {0, 30},
     exercise_score : {None, Some(40), Some(90)},
     exercise_answer : {None, Some(<<"answer">>)}]

\* UserProgress(user_id, content_id, content_type, status="in_progress",
\* started_at=now) before its INSERT: the columns the constructor was not
\* given are None on the object; their defaults are filled in by the INSERT
NewUserProgress(content_type, t) ==
    [flushed |-> FALSE, content_type |-> content_type, status |-> "in_progress",
     progress_percent |-> 0, scroll_position |-> None, reading_time_seconds |-> 0,
     attempts |-> 0, best_score |-> None, last_answer |-> None,
     started_at |-> Some(t), completed_at |-> None, last_accessed_at |-> t]

\* the status lines of update_content_progress
WithStatus(row, t) ==
    IF row.progress_percent >= 100
    THEN [row EXCEPT !.status = "completed", !.completed_at = Some(t)]
    ELSE IF row.progress_percent > 0
    THEN [row EXCEPT !.status = "in_progress",
                     !.started_at = IF @ = None THEN Some(t) ELSE @]
    ELSE row

\* update_content_progress(content_id, update_data, current_user, db) at the
\* time t, progress being the row the SELECT found, if any.  `+=` on a
\* column that is still None raises TypeError; the flush writes the row.
update_content_progress(progress, update_data, t) ==
    LET found == IF progress # None THEN progress[1]
                 ELSE NewUserProgress(update_data.content_type, t)
        adds_time == update_data.reading_time_delta > 0
        adds_attempt == /\ update_data.content_type = "exercise"
                        /\ update_data.exercise_score # None
        row1 == [found EXCEPT
                   !.progress_percent = update_data.progress_percent,
                   !.last_accessed_at = t,
                   !.scroll_position = IF update_data.scroll_position # None
                                       THEN update_data.scroll_position ELSE @,
                   !.reading_time_seconds = IF adds_time
                                            THEN @ + update_data.reading_time_delta ELSE @]
        row2 == IF update_data.content_type # "exercise" THEN row1
                ELSE [row1 EXCEPT
                        !.attempts = IF adds_attempt THEN @ + 1 ELSE @,
                        !.best_score =
                            IF adds_attempt
                               /\ (IF @ = None THEN TRUE
                                   ELSE update_data.exercise_score[1] > @[1])
                            THEN update_data.exercise_score ELSE @,
                        !.last_answer = IF update_data.exercise_answer # None
                                        THEN update_data.exercise_answer ELSE @]
        row3 == WithStatus(row2, t)
    IN IF ~found.flushed /\ (adds_time \/ adds_attempt)
       THEN [raised |-> TRUE, progress |-> progress]
       ELSE [raised |-> FALSE, progress |-> Some([row3 EXCEPT !.flushed = TRUE])]

\* what the calls so far were given, after one more
Patched(log, update_data, raised) ==
    LET scored == /\ update_data.content_type = "exercise"
                  /\ update_data.exercise_score # None
    IN [calls |-> log.calls + 1,
        failed |-> log.failed + (IF raised THEN 1 ELSE 0),
        reading_time |-> log.reading_time + update_data.reading_time_delta,
        scored |-> log.scored + (IF scored THEN 1 ELSE 0),
        best |-> IF scored /\ (IF log.best = None THEN TRUE
                               ELSE update_data.exercise_score[1] > log.best[1])
                 THEN update_data.exercise_score ELSE log.best,
        status |-> IF raised THEN 500 ELSE 200]

ProgressInit ==
    /\ NoRequestInFlight
    /\ collection = << >>
    /\ AuxInit

\* PATCH /{content_id}: the request, and get_db's commit or rollback
UpdateContentProgress ==
    /\ patches.calls < MaxUpdates
    /\ \E update_data \in ProgressUpdates :
          LET out == update_content_progress(user_progress, update_data, patches.calls + 1)
          IN /\ user_progress' = out.progress
             /\ patches' = Patched(patches, update_data, out.raised)
    /\ UNCHANGED <<ragVars, notProgress>>

NextProgress == UpdateContentProgress

SpecProgress == ProgressInit /\ [][NextProgress]_vars

(***************************** claims **************************************)
Streaming == req.mode = "stream"
Generating == req.mode = "generate"
\* retrieve_context has returned
Retrieved == pc \notin {"idle", "retrieve"}

Count(evts, type) == Cardinality({k \in 1..Len(evts) : evts[k].type = type})
NonEmpty(texts) == Cardinality({k \in 1..Len(texts) : texts[k] # << >>})
IsPrefix(a, b) == Len(a) <= Len(b) /\ \A k \in 1..Len(a) : a[k] = b[k]

\* exactly one sources event, which precedes every chunk event
OneSourcesFirst(evts) ==
    /\ Count(evts, "sources") = 1
    /\ evts[1].type = "sources"

\* at most one done event, and no event after it
DoneOnlyLast(evts) ==
    /\ Count(evts, "done") <= 1
    /\ \A k \in 1..Len(evts) : evts[k].type = "done" => k = Len(evts)

\* C1 as stated: every run of stream_rag_response that has ended, however it
\* ended, emitted exactly one sources event before every chunk event and was
\* terminated by exactly one done event.
C1_EveryRunEndsWithDone ==
    (Streaming /\ pc \in {"done", "failed"}) =>
        /\ OneSourcesFirst(events)
        /\ DoneOnlyLast(events)
        /\ events[Len(events)].type = "done"

\* C1 amended: in every run of stream_rag_response the first event is the one
\* sources event, there is at most one done event and nothing follows it; a
\* run that runs to completion ends with exactly one done event, and a run
\* in which the generation client fails ends with no done event.
C1_SourcesFirstDoneLast ==
    Streaming =>
        /\ events # << >> => OneSourcesFirst(events)
        /\ DoneOnlyLast(events)
        /\ pc = "done" => (events # << >> /\ events[Len(events)].type = "done")
        /\ pc = "failed" => (events # << >> /\ Count(events, "done") = 0)

C1_Witness ==
    /\ Streaming
    /\ pc = "done"
    /\ Count(events, "chunk") = MaxFragments
    /\ generation.calls = 1

NoContextEvents ==
    <<Event("sources", << >>), Event("chunk", NO_CONTEXT_RESPONSE), Event("done", None)>>

\* C2: when retrieval yields zero results and no selected_text is supplied,
\* stream_rag_response yields the empty sources event, one chunk with the
\* fixed NO_CONTEXT_RESPONSE and done, in this order and nothing else, and
\* never invokes the generation client.
C2_NoContextStreamEvents ==
    (Streaming /\ Retrieved /\ retrieval.results = << >> /\ ~Truthy(req.selected_text)) =>
        /\ IsPrefix(events, NoContextEvents)
        /\ pc = "done" => events = NoContextEvents
        /\ pc # "failed"
        /\ generation.calls = 0

C2_Witness ==
    /\ Streaming
    /\ pc = "done"
    /\ retrieval.caught = "none"
    /\ retrieval.embedding # None
    /\ Truthy(req.chat_history)
    /\ req.selected_text = None
    /\ events = NoContextEvents

\* C3: generate_rag_response with zero results and no selected_text, whatever
\* the chat history, calls neither a prompt builder nor the generation client
\* and returns the fixed NO_CONTEXT_RESPONSE with zero token counts.
C3_NoContextGenerate ==
    (Generating /\ pc \in {"done", "failed"}
        /\ retrieval.results = << >> /\ ~Truthy(req.selected_text)) =>
        /\ pc = "done"
        /\ generation.prompt_calls = 0
        /\ generation.calls = 0
        /\ response # None
        /\ response[1].answer = NO_CONTEXT_RESPONSE
        /\ response[1].input_tokens = 0
        /\ response[1].output_tokens = 0

C3_Witness ==
    /\ Generating
    /\ pc = "done"
    /\ retrieval.results = << >>
    /\ req.selected_text = None
    /\ Truthy(req.chat_history)
    /\ response # None

\* the message list holds the text t
Mentions(messages, t) ==
    \E k \in 1..Len(messages) : \E j \in 1..Len(messages[k].parts) :
        Contains(messages[k].parts[j], t)

\* the message list holds the text of a retrieved chunk or the selected text
Grounded(messages, results, selected_text) ==
    \/ \E k \in 1..Len(results) : Mentions(messages, results[k].text)
    \/ Truthy(selected_text) /\ Mentions(messages, selected_text[1])

\* C4: whenever generate_rag_response or stream_rag_response calls the
\* generation client, the message list it sends contains the text of at least
\* one retrieved chunk or the user's selected text.
C4_GenerationIsGrounded ==
    generation.calls > 0 =>
        Grounded(generation.messages[1], retrieval.results, req.selected_text)

\* C5: when the vector search client fails during the retrieve step,
\* retrieve_context returns an empty list and the request goes on as for zero
\* results: it ends with the fixed no-context answer when no selected_text is
\* given, and with a generation from the selection otherwise.
C5_SearchFailureDegrades ==
    (Retrieved /\ retrieval.caught = "search") =>
        /\ retrieval.results = << >>
        /\ (pc = "done" /\ ~Truthy(req.selected_text)) =>
              /\ generation.calls = 0
              /\ Generating => response[1].answer = NO_CONTEXT_RESPONSE
              /\ Streaming => events = NoContextEvents
        /\ (generation.calls > 0) =>
              /\ Truthy(req.selected_text)
              /\ Mentions(generation.messages[1], req.selected_text[1])

\* C6: a failure of the embedding provider call made for a RAG request is
\* propagated to the caller: the request emits nothing and does not complete
\* with an answer.
C6_EmbeddingFailurePropagates ==
    (Retrieved /\ retrieval.caught = "embedding") =>
        /\ pc # "done"
        /\ response = None
        /\ events = << >>

\* C7: the generation client is invoked at most once per request, with no
\* retry; when the provider fails, generate_rag_response raises and returns
\* no RAGResponse, and stream_rag_response ends with the error, having
\* relayed only the fragments given before the error and no done event.
C7_GenerationErrorPropagates ==
    /\ generation.calls <= 1
    /\ generation.error =>
          /\ pc = "failed"
          /\ response = None
          /\ Count(events, "done") = 0
          /\ Count(events, "chunk") = NonEmpty(generation.provided)
    /\ pc = "failed" => generation.error

C7_Witness ==
    /\ Streaming
    /\ pc = "failed"
    /\ generation.error
    /\ Count(events, "chunk") > 0

AllScoresAtLeast(rs, threshold) == \A k \in 1..Len(rs) : rs[k].score >= threshold

\* C8: search_similar returns at most `limit` results, each with score >=
\* score_threshold; so the sources of a request, as held by the RAGResponse
\* and as carried by the sources event, are at most context_limit entries,
\* each with score >= 0.7.
C8_LimitAndThreshold ==
    /\ (lastOp.op = "search" /\ ~lastOp.raised) =>
          /\ Len(lastOp.value) <= lastOp.limit
          /\ AllScoresAtLeast(lastOp.value, lastOp.score_threshold)
    /\ Retrieved =>
          /\ Len(sources) <= req.context_limit
          /\ AllScoresAtLeast(sources, DefaultScoreThreshold)
    /\ response # None =>
          /\ Len(response[1].sources) <= req.context_limit
          /\ AllScoresAtLeast(response[1].sources, DefaultScoreThreshold)
    /\ \A k \in 1..Len(events) : events[k].type = "sources" =>
          /\ Len(events[k].data) <= req.context_limit
          /\ AllScoresAtLeast(events[k].data, DefaultScoreThreshold)

\* a completed request for which more stored chunks match the filter and the
\* threshold than context_limit admits
C8_Witness ==
    /\ pc = "done"
    /\ req.context_limit = 1
    /\ Len(sources) = 1
    /\ retrieval.embedding # None
    /\ Cardinality(Hits(collection, retrieval.embedding[1],
                        Conditions(req.module_id, req.chapter_id, None),
                        DefaultScoreThreshold)) > 1

\* C9: upsert_chunks called with len(chunks) # len(embeddings) raises before
\* any call to the vector store and leaves the collection as it was: no
\* prefix of the chunks is stored.
C9_MismatchStoresNothing ==
    [][(lastOp'.op = "upsert" /\ lastOp'.nchunks # lastOp'.nembeddings) =>
            /\ lastOp'.raised
            /\ lastOp'.net = 0
            /\ collection' = collection]_vars

C9_Witness ==
    /\ lastOp.op = "upsert"
    /\ lastOp.nembeddings > 0
    /\ lastOp.nchunks > lastOp.nembeddings
    /\ lastOp.raised
    /\ DOMAIN collection # ChunkIds

\* C10: search_similar called with limit <= 0 is rejected before any network
\* call to the vector store is made.
C10_BadLimitRejectedLocally ==
    (lastOp.op = "search" /\ lastOp.limit <= 0) =>
        /\ lastOp.raised
        /\ lastOp.net = 0

\* C11: an embedding vector whose length is not 768 passed to upsert_chunks
\* or to search_similar makes the call raise, with the error the vector
\* store answers; the collection stays as it was, so the vector is stored
\* neither as it is nor cut or padded to 768, and every stored vector has
\* length 768.
C11_WrongDimensionIsHardError ==
    [][/\ (lastOp'.op \in {"upsert", "search"} /\ lastOp'.dim # EmbeddingDim
            /\ (lastOp'.op = "upsert" => lastOp'.nchunks = lastOp'.nembeddings
                                          /\ lastOp'.nchunks > 0)) =>
              /\ lastOp'.raised
              /\ lastOp'.net = 1
              /\ collection' = collection
       /\ \A i \in DOMAIN collection' : collection'[i].vector.dim = EmbeddingDim]_vars

\* a batch of as many too long embeddings as chunks, for a chunk the
\* collection does not hold, was refused
C11_Witness ==
    /\ lastOp.op = "upsert"
    /\ lastOp.dim = EmbeddingDim + 1
    /\ lastOp.nchunks = lastOp.nembeddings
    /\ lastOp.nchunks > 0
    /\ lastOp.raised
    /\ lastOp.net = 1
    /\ DOMAIN collection # ChunkIds

(******************* claims on the prompt builders *************************)
\* the fixed system-instruction message pair of the builder that was called
Preamble(messages) ==
    /\ Len(messages) >= 2
    /\ messages[1] = Message("user", RAG_SYSTEM_PROMPT)
    /\ messages[2] = Message("model", IF call.fn = "build_rag_prompt"
                                      THEN RAG_ACKNOWLEDGMENT ELSE FOLLOWUP_ACKNOWLEDGMENT)

Last(messages) == messages[Len(messages)]
BuilderCalled == call.fn \in {"build_rag_prompt", "build_followup_prompt"}

\* C12: for every input, empty context_chunks and empty chat_history
\* included, build_rag_prompt and build_followup_prompt return a list of at
\* least three messages that starts with the user/model preamble pair and
\* whose last message has role "user" and one part that contains the query.
C12_BuilderOutputShape ==
    BuilderCalled =>
        /\ Len(call.result) >= 3
        /\ Preamble(call.result)
        /\ Last(call.result).role = "user"
        /\ Len(Last(call.result).parts) = 1
        /\ Contains(Last(call.result).parts[1], call.query)

\* build_rag_prompt was given context chunks, a selection and a query
C12_Witness ==
    /\ call.fn = "build_rag_prompt"
    /\ call.query # << >>
    /\ Len(call.context_chunks) = MaxContext
    /\ Truthy(call.selected_text)

\* C13 as stated: build_rag_prompt with empty context_chunks and no
\* selected_text returns a non-empty list whose last message has role "user"
\* and content equal to the query.
C13_LastMessageIsLiteralQuery ==
    (call.fn = "build_rag_prompt" /\ call.context_chunks = << >>
        /\ call.selected_text = None) =>
        /\ call.result # << >>
        /\ Last(call.result).role = "user"
        /\ Last(call.result).parts = <<call.query>>

\* C14: build_followup_prompt returns the preamble pair, then one message
\* for each history entry, in order, with the entry's content (the empty
\* text for an entry without content) and the role "user" when the entry's
\* role is "user" and "model" otherwise, then the one message of the
\* follow-up question.
C14_HistoryPreserved ==
    call.fn = "build_followup_prompt" =>
        /\ Len(call.result) = Len(call.chat_history) + 3
        /\ Preamble(call.result)
        /\ \A k \in 1..Len(call.chat_history) :
              /\ call.result[k + 2].parts = <<Get(call.chat_history[k], "content", << >>)>>
              /\ call.result[k + 2].role =
                    IF "role" \in DOMAIN call.chat_history[k]
                       /\ call.chat_history[k].role = "user"
                    THEN "user" ELSE "model"
        /\ Last(call.result).role = "user"
        /\ Contains(Last(call.result).parts[1], <<"## Follow-up Question\n\n">> \o call.query)

\* a history of a user turn and an assistant turn
C14_Witness ==
    /\ call.fn = "build_followup_prompt"
    /\ call.chat_history = <<[role |-> "user", content |-> <<"A">>],
                             [role |-> "assistant", content |-> <<"B">>]>>
    /\ call.query # << >>
    /\ call.result[3] = Message("user", <<"A">>)
    /\ call.result[4] = Message("model", <<"B">>)

(************************* claims on count_tokens **************************)
\* ceil(n / 4)
CeilQuarter(n) == (n + 3) \div 4

\* C15 as stated: count_tokens never raises, and when the provider's token
\* count fails it returns ceil(len(text) / 4), a non-negative integer.
C15_FallbackIsCeilOfQuarter ==
    call.fn = "count_tokens" =>
        /\ ~call.raised
        /\ call.result >= 0
        /\ call.failed => call.result = CeilQuarter(Len(call.text))

(************************ claims on the chat routes ************************)
Abandoned(r) == r.path = "stream" /\ r.status = "abandoned"

\* every session the request found is as it found it, and a session it
\* created holds nothing
NothingStored ==
    \A id \in DOMAIN sessions :
        IF id \in DOMAIN route.entry
        THEN /\ sessions[id].messages = route.entry[id].messages
             /\ sessions[id].message_count = route.entry[id].message_count
        ELSE /\ sessions[id].messages = << >>
             /\ sessions[id].message_count = 0

TurnStored(answer, usage) ==
    LET n == route.before.message_count
        row == sessions[route.session]
        user_msg == row.messages[n + 1]
        assistant_msg == row.messages[n + 2]
    IN /\ row.message_count = n + 2
       /\ Len(row.messages) = n + 2
       /\ SubSeq(row.messages, 1, n) = route.before.messages
       /\ user_msg.sequence_number = n + 1
       /\ user_msg.role = "user"
       /\ user_msg.content = req.query
       /\ assistant_msg.sequence_number = n + 2
       /\ assistant_msg.role = "assistant"
       /\ assistant_msg.content = answer
       /\ assistant_msg.retrieved_chunks = sources
       /\ assistant_msg.input_tokens = usage.input_tokens
       /\ assistant_msg.output_tokens = usage.output_tokens

\* C17 as stated: after a chat turn that reached a terminal state, on
\* query_chat and on query_chat_stream, exactly two messages are stored for
\* the session, the question with sequence number n + 1 and the answer with
\* n + 2, the answer carrying the turn's sources and the input and output
\* token counts of the generation, and message_count is n + 2.
C17_TurnStoredWithTokenCounts ==
    /\ (route.path = "query" /\ route.status = "responded") =>
          TurnStored(response[1].answer, generation.usage)
    /\ (route.path = "stream" /\ route.status = "completed") =>
          TurnStored(FullResponse(events), generation.usage)

(************************ claims on concurrent calls ***********************)
\* the chunk events of the fragments the provider gave, in order
RECURSIVE ChunkEvents(_)
ChunkEvents(provided) ==
    IF provided = << >> THEN << >>
    ELSE (IF Head(provided) # << >> THEN <<Event("chunk", Head(provided))>> ELSE << >>)
         \o ChunkEvents(Tail(provided))

\* the events a stream_rag_response call at f.pc has produced when it runs
\* alone: a function of its own arguments, its own retrieval and the
\* fragments the provider gave to it
EventsAlone(f) ==
    IF f.req.mode # "stream" \/ f.pc \in {"idle", "retrieve", "retrieved"} THEN << >>
    ELSE <<Event("sources", extract_sources(f.retrieval.results))>>
         \o (IF NoContextStream(f.retrieval.results, f.req) /\ f.pc # "sources_yielded"
             THEN <<Event("chunk", NO_CONTEXT_RESPONSE)>> ELSE << >>)
         \o ChunkEvents(f.generation.provided)
         \o (IF f.pc = "done" THEN <<Event("done", None)>> ELSE << >>)

\* the RAGResponse a generate_rag_response call returns when it runs alone
\* and the provider answers `reply`
ResponseAlone(f, reply) ==
    IF NoContextGenerate(f.retrieval.results, f.req)
    THEN [answer |-> NO_CONTEXT_RESPONSE, sources |-> extract_sources(f.retrieval.results),
          input_tokens |-> 0, output_tokens |-> 0]
    ELSE [answer |-> reply.text, sources |-> extract_sources(f.retrieval.results),
          input_tokens |-> reply.input_tokens, output_tokens |-> reply.output_tokens]

AsIfAlone(f) ==
    /\ f.pc \notin {"idle", "retrieve"} =>
          /\ \E up \in BOOLEAN :
                f.retrieval = retrieve_context(collection, f.req.query, f.req.module_id,
                                               f.req.chapter_id, f.req.context_limit,
                                               DefaultScoreThreshold, f.retrieval.embedding, up)
          /\ f.sources = extract_sources(f.retrieval.results)
    /\ f.generation.calls > 0 =>
          /\ f.generation.calls = 1
          /\ f.generation.messages = Some(BuildMessages(f.req, f.retrieval.results))
          /\ IF f.req.mode = "stream" THEN ~NoContextStream(f.retrieval.results, f.req)
             ELSE ~NoContextGenerate(f.retrieval.results, f.req)
    /\ (f.req.mode = "generate" /\ f.pc = "done") =>
          /\ f.response # None
          /\ \E reply \in ProviderReplies :
                ~reply.error /\ f.response[1] = ResponseAlone(f, reply)
    /\ f.events = EventsAlone(f)

\* C18: in every interleaving of two concurrent generate_rag_response /
\* stream_rag_response calls at their await and yield points, each call's
\* retrieval, sources, the message list it sends to the generation client,
\* its answer and its event sequence are what its own arguments and the
\* provider's responses to its own calls give when it runs alone.
C18_CallsDoNotInterfere ==
    \A t \in Calls : AsIfAlone(tasks[t])

\* call 1 is streaming an answer grounded on a retrieved chunk while call 2,
\* whose retrieval gave nothing, has returned a generated answer
C18_Witness ==
    /\ tasks[1].pc = "streaming"
    /\ tasks[1].retrieval.results # << >>
    /\ tasks[1].generation.provided # << >>
    /\ tasks[2].pc = "done"
    /\ tasks[2].req.mode = "generate"
    /\ tasks[2].retrieval.results = << >>
    /\ tasks[2].generation.calls = 1
    /\ gemini_service # None

(******************* claims on ensure_collection_exists ********************)
\* C19 as stated: ensure_collection_exists, called any number of times and
\* in any interleaving of two callers at its await points, never fails
\* because the collection already exists, and when it has returned the
\* collection exists with a 768-dimension cosine vector space.
C19_BootstrapIsBenign ==
    \A c \in Callers :
        /\ callers[c].error # Some("already exists")
        /\ callers[c].pc = "returned" =>
              /\ qdrant.exists
              /\ qdrant.params = Some([size |-> EmbeddingDim, distance |-> "Cosine"])

(**************************** claims on /refresh ***************************)
\* the calls that presented the token and returned a new pair
RotationsOf(token) == {i \in DOMAIN rotations : rotations[i].presented = token}

\* C20 as stated: for any sequence or interleaving of /refresh calls, at
\* most one call presenting a given refresh token returns a new token pair,
\* that call marks the stored token revoked, and every other call presenting
\* the same token is rejected with 401.
C20_RefreshTokenIsSingleUse ==
    /\ \A i \in DOMAIN rotations :
          /\ Cardinality(RotationsOf(rotations[i].presented)) <= 1
          /\ \E r \in refresh_tokens :
                /\ r.token_hash = hash_token(rotations[i].presented)
                /\ r.is_revoked
    /\ \A c \in Refreshers :
          /\ refreshers[c].pc \in {"rejected", "error"}
          /\ RotationsOf(refreshers[c].presented) # {}
          => refreshers[c].status = 401

(**************************** claims on /logout ****************************)
\* a /refresh request starts and has the answer of its SELECT
RefreshStarts(c) ==
    /\ refreshers[c].pc = "idle"
    /\ refreshers'[c].pc # "idle"

\* the logout's transaction commits
LogoutCompletes ==
    /\ logout.pc = "selected"
    /\ logout'.pc = "done"

\* C21: once a logout of user U has completed, every refresh token stored
\* for U before it is revoked, a /refresh that then presents one of them is
\* rejected with 401, and the completing logout leaves the rows of every
\* other user as they were.
C21_LogoutRevokesOwnTokens ==
    [][/\ \A h \in logged_out' :
             \E r \in refresh_tokens' : r.token_hash = h /\ r.is_revoked
       /\ \A c \in Refreshers :
             RefreshStarts(c) /\ hash_token(refreshers'[c].presented) \in logged_out
             => refreshers'[c].pc = "rejected" /\ refreshers'[c].status = 401
       /\ LogoutCompletes =>
             {r \in refresh_tokens' : r.user_id # logout.user_id}
                = {r \in refresh_tokens : r.user_id # logout.user_id}]_vars

\* a logout has completed, a /refresh presenting one of its user's refresh
\* tokens was rejected, and another user still has an unrevoked token
C21_Witness ==
    /\ logged_out # {}
    /\ \E c \in Refreshers :
          /\ refreshers[c].pc = "rejected"
          /\ refreshers[c].presented.type = "refresh"
          /\ hash_token(refreshers[c].presented) \in logged_out
    /\ \E r \in refresh_tokens : r.token_hash \notin logged_out /\ ~r.is_revoked

(************************ claims on the rate limiter ***********************)
\* the window and the limit dispatch gives is_allowed for a key
WindowOf(key) == IF key[3] = "minute" THEN MinuteWindow ELSE BurstWindow
LimitOf(key) == IF key[3] = "minute" THEN RequestsPerMinute ELSE BurstLimit

\* the calls on key that were allowed in the window ending at t
AllowedIn(key, t) ==
    Cardinality({i \in DOMAIN admitted[key] :
                    admitted[key][i] > t - WindowOf(key) /\ admitted[key][i] <= t})

C26_RejectedConsumesNoQuota ==
    rate.op = "dispatch" /\ rate.status = 429 => limiter.windows = rate.before

(********************** claims on the streamed relay ***********************)
\* the fragments stream_response has yielded: the texts of the provider's
\* chunks that carry text
Yielded(provided) == SelectSeq(provided, LAMBDA text : text # << >>)

\* the payloads of the chunk events
ChunkPayloads(evts) ==
    LET chunks == SelectSeq(evts, LAMBDA e : e.type = "chunk")
    IN [i \in DOMAIN chunks |-> chunks[i].data]

\* C23: on the generation path of stream_rag_response the sources event is
\* there before the generation client is invoked, the payloads of the chunk
\* events are exactly the fragments the generation client has yielded, one
\* event per fragment in the same order, and done is emitted only when the
\* generation sequence is exhausted, after every chunk.
C23_RelayIsExact ==
    req.mode = "stream" /\ generation.calls > 0 =>
        /\ Len(events) >= 1
        /\ events[1] = Event("sources", sources)
        /\ ChunkPayloads(events) = Yielded(generation.provided)
        /\ \A i \in DOMAIN events :
              events[i].type = "done" => i = Len(events) /\ pc = "done"
        /\ pc = "done" => events[Len(events)].type = "done"
        /\ \A i \in 2..Len(events) : events[i].type \in {"chunk", "done"}

\* a stream that relayed every fragment the bound allows and ended
C23_Witness ==
    /\ req.mode = "stream"
    /\ pc = "done"
    /\ generation.calls > 0
    /\ Len(Yielded(generation.provided)) = MaxFragments
    /\ Len(events) = MaxFragments + 2

(******************* claims on the generation client's turn ****************)
\* C24: generate_response and stream_response, given a message list of
\* length n, start the chat with exactly the first n-1 messages, in order,
\* as history and send only the last message as the new turn.
C24_HistoryIsAllButLast ==
    generation.calls > 0 =>
        LET messages == generation.messages[1]
            n == Len(messages)
        IN /\ n >= 1
           /\ Len(generation.history[1]) = n - 1
           /\ \A i \in 1..(n - 1) : generation.history[1][i] = messages[i]
           /\ generation.sent = Some(messages[n].parts[1])

\* a completed stream whose prompt held earlier turns: the chat was started
\* with a history beyond the preamble
C24_Witness ==
    /\ generation.calls > 0
    /\ pc = "done"
    /\ req.mode = "stream"
    /\ Len(generation.history[1]) > 2

(************************ claims on the sources list ***********************)
\* list has one entry per search result of the request, in the order of the
\* results, each with the result's module, chapter, section title and score
OnePerResult(list) ==
    /\ Len(list) = Len(retrieval.results)
    /\ \A i \in DOMAIN list :
          /\ list[i].module_id = retrieval.results[i].module_id
          /\ list[i].chapter_id = retrieval.results[i].chapter_id
          /\ list[i].section = retrieval.results[i].section_title
          /\ list[i].score = retrieval.results[i].score
    /\ \A i, j \in DOMAIN list : i < j => list[i].score >= list[j].score

\* C25: the sources list has exactly one entry per search result, in the
\* order the search returned them (descending score), each copying module,
\* chapter, section title and score; it is what generate_rag_response
\* returns and what stream_rag_response emits, on the no-context path and on
\* the generation path alike.
C25_SourcesMirrorResults ==
    /\ response # None => OnePerResult(response[1].sources)
    /\ \A i \in DOMAIN events :
          events[i].type = "sources" => OnePerResult(events[i].data)
    /\ pc = "done" /\ req.mode = "generate" => response # None
    /\ pc \in {"sources_yielded", "no_context_chunk_yielded", "streaming", "done"}
       /\ req.mode = "stream" => events[1].type = "sources"

\* a generation answered from two results of different scores
C25_Witness ==
    /\ pc = "done"
    /\ req.mode = "generate"
    /\ generation.calls > 0
    /\ Len(retrieval.results) = 2
    /\ response[1].sources[1].score > response[1].sources[2].score

(********************** claims on session ownership ************************)
\* the route has stored its turn
TurnSaved == route.path # "none" /\ route.status \in {"responded", "completed"}

\* C30 as stated: query_chat and query_chat_stream store the turn of a
\* request in a session only if the session's user_id is the requester's
\* identity (both may be anonymous); a request that names another user's
\* session has its turn stored in a new session of its own.
C30_TurnGoesToOwnSession ==
    TurnSaved =>
        /\ sessions[route.session].user_id = route.user
        /\ \A id \in DOMAIN route.entry :
              route.entry[id].user_id # route.user => sessions[id] = route.entry[id]

(********************* claims on the sequence numbers **********************)
\* C27 as stated: the messages stored for a session have the sequence
\* numbers 1..message_count, none twice and none missing, user turns odd and
\* assistant turns even, also when two requests on the session overlap.
C27_SequenceNumbersAreDense ==
    \A id \in DOMAIN sessions :
        LET row == sessions[id]
        IN /\ Len(row.messages) = row.message_count
           /\ {row.messages[i].sequence_number : i \in DOMAIN row.messages}
                 = 1..row.message_count
           /\ \A i \in DOMAIN row.messages :
                 (row.messages[i].role = "user")
                    <=> (row.messages[i].sequence_number % 2 = 1)

(********************** claims on the progress record **********************)
\* C28 as stated: after any sequence of update_content_progress calls on a
\* content item the stored status is "completed" exactly when the stored
\* progress_percent is at least 100, and completed_at is set exactly when
\* the status is "completed".
C28_CompletedIffHundred ==
    user_progress # None =>
        /\ (user_progress[1].status = "completed")
              <=> (user_progress[1].progress_percent >= 100)
        /\ (user_progress[1].completed_at # None)
              <=> (user_progress[1].status = "completed")

\* C29 as stated: from no record, after any sequence of valid updates there
\* is one record, every update has succeeded, the creating one included,
\* reading_time_seconds is the sum of the reading_time_delta values,
\* attempts the number of exercise updates that carried a score and
\* best_score the maximum of those scores.
C29_FindOrCreateAccumulates ==
    patches.calls > 0 =>
        /\ patches.failed = 0
        /\ user_progress # None
        /\ user_progress[1].reading_time_seconds = patches.reading_time
        /\ user_progress[1].attempts = patches.scored
        /\ user_progress[1].best_score = patches.best
====
